---- MODULE Spec2Model ----
(***************************************************************************)
(* Model of the prescription digitisation core of MediMatch:               *)
(*   prescription_ocr/ocr_engine.py   PrescriptionOCR (lazy engines,       *)
(*                                    extract_text, extract_with_ensemble) *)
(*   prescription_ocr/pipeline.py     PrescriptionOCRPipeline              *)
(*   prescription_ocr/gemini_correction.py, medical_ner.py,                *)
(*   error_correction.py              the stages the pipeline calls        *)
(*                                                                         *)
(* Confidences are integers in hundredths (0.6 is 60).  A rational that    *)
(* is not a whole number of hundredths is kept as a record [num, den].     *)
(***************************************************************************)
EXTENDS Integers, Sequences, FiniteSets, TLC

(***************************************************************************)
(* Bounds of the model                                                     *)
(***************************************************************************)
\* invocations that share one PrescriptionOCR
Threads == {"t1", "t2"}
\* the invocation that runs the pipeline
PipeThread == "t1"

Backends == {"easyocr", "tesseract"}
\* ocr_engine.py:197  for engine_name in ['easyocr', 'tesseract']
EngineOrder == <<"easyocr", "tesseract">>

\* average confidences a backend can report for an image (hundredths)
OcrConfs == {55, 60, 90}
\* what one backend does on one image: it raises, or it returns a result
Outcomes == {[raises |-> TRUE, conf |-> 0]} \cup
            {[raises |-> FALSE, conf |-> c] : c \in OcrConfs}
\* an image, as seen by the recognition stage
Images == [easyocr : Outcomes, tesseract : Outcomes]
NoImage == [easyocr |-> [raises |-> TRUE, conf |-> 0],
            tesseract |-> [raises |-> TRUE, conf |-> 0]]
\* engine argument of a recognition call
Modes == {"auto", "easyocr", "tesseract", "ensemble", "other"}
\* whether creating a backend succeeds: always, or attempt by attempt (a
\* backend that is not installed is one whose every attempt fails)
InitKinds == {"ok", "flaky"}
\* the calls the concurrent invocations of SpecOCR make: every call runs
\* _initialize_engines first, whatever its engine and image
OcrModes == {"auto", "ensemble"}
OcrImages == {i \in Images : i.easyocr.conf \in {0, 60} /\ i.tesseract.conf = 90}

(***************************************************************************)
(* Numbers: a confidence that is a quotient is the pair [num, den], den>0  *)
(***************************************************************************)
RECURSIVE Gcd(_, _)
Gcd(a, b) == IF b = 0 THEN a ELSE Gcd(b, a % b)
\* the rational n/d in lowest terms
Rat(n, d) == LET g == Gcd(n, d) IN
             IF n = 0 THEN [num |-> 0, den |-> 1]
             ELSE [num |-> n \div g, den |-> d \div g]
RatInt(n) == [num |-> n, den |-> 1]
RatAdd(x, y) == Rat(x.num * y.den + y.num * x.den, x.den * y.den)
RatDivInt(x, k) == Rat(x.num, x.den * k)
RatLess(x, y) == x.num * y.den < y.num * x.den
RatEq(x, y) == x.num * y.den = y.num * x.den
RatMax(x, y) == IF RatLess(x, y) THEN y ELSE x
NoRat == [num |-> 0, den |-> 0]

(***************************************************************************)
(* Text: a string is a sequence of one-character strings                   *)
(***************************************************************************)
Digits == {"0", "1", "2", "3", "4", "5", "6", "7", "8", "9"}
UpperSeq == <<"A", "B", "C", "D", "E", "F", "G", "H", "I", "J", "K", "L", "M",
              "N", "O", "P", "Q", "R", "S", "T", "U", "V", "W", "X", "Y", "Z">>
LowerSeq == <<"a", "b", "c", "d", "e", "f", "g", "h", "i", "j", "k", "l", "m",
              "n", "o", "p", "q", "r", "s", "t", "u", "v", "w", "x", "y", "z">>
Uppers == {UpperSeq[i] : i \in 1..Len(UpperSeq)}
Lowers == {LowerSeq[i] : i \in 1..Len(LowerSeq)}
Letters == Uppers \cup Lowers
\* \s and \w of the re module, on the characters of the model
Spaces == {" ", "\n"}
\* the hyphen and the en dash (the latter written as a token of its own)
Dashes == {"-", "ndash"}
WordChars == Letters \cup Digits \cup {"_"}
\* str.lower() on one character and on a string
LowerChar(c) == IF c \in Uppers
                THEN LowerSeq[CHOOSE i \in 1..Len(UpperSeq) : UpperSeq[i] = c]
                ELSE c
LowerStr(s) == [i \in 1..Len(s) |-> LowerChar(s[i])]
\* the last index of the longest run of characters of C that starts at i
\* (i - 1 when s[i] is not in C)
RunEnd(s, i, C) ==
  CHOOSE j \in (i - 1)..Len(s) :
    /\ \A k \in i..j : s[k] \in C
    /\ j = Len(s) \/ s[j + 1] \notin C

(***************************************************************************)
(* error_correction.py: the Validator's functions                          *)
(***************************************************************************)
\* the unit as it was written
UnitKept(unit) == unit
\* error_correction.py:245  unit_mapping.get(unit.lower(), unit)
UnitMapping(unit) ==
  LET u == LowerStr(unit) IN
  IF u = <<"m", "g">> THEN <<"m", "g">>
  ELSE IF u = <<"g", "m">> THEN <<"g">>
  ELSE IF u = <<"g", "r", "a", "m">> THEN <<"g">>
  ELSE IF u = <<"m", "c", "g">> THEN <<"m", "c", "g">>
  ELSE IF u = <<"m", "i", "c", "r", "o", "g", "r", "a", "m">> THEN <<"m", "c", "g">>
  ELSE IF u = <<"m", "l">> THEN <<"m", "l">>
  ELSE IF u = <<"i", "u">> THEN <<"I", "U">>
  ELSE unit

\* (?:\.\d+)? after the digits that end at a1: where the amount ends
AmountEnd(d, a1) ==
  IF a1 + 2 <= Len(d) /\ d[a1 + 1] = "." /\ d[a1 + 2] \in Digits
  THEN RunEnd(d, a1 + 2, Digits) ELSE a1
\* \s*([a-zA-Z]+) after the amount d[i..a2]: the match, if there is a unit
UnitAfter(d, i, a2, sp) ==
  IF RunEnd(d, sp + 1, Letters) >= sp + 1
  THEN [ok |-> TRUE, amount |-> SubSeq(d, i, a2),
        unit |-> SubSeq(d, sp + 1, RunEnd(d, sp + 1, Letters))]
  ELSE [ok |-> FALSE, amount |-> <<>>, unit |-> <<>>]
AmountAt(d, i, a2) == UnitAfter(d, i, a2, RunEnd(d, a2 + 1, Spaces))
\* the match of (\d+(?:\.\d+)?)\s*([a-zA-Z]+) that starts at i, if any:
\* [ok, amount, unit]
DosageMatchAt(d, i) ==
  IF d[i] \in Digits
  THEN AmountAt(d, i, AmountEnd(d, RunEnd(d, i, Digits)))
  ELSE [ok |-> FALSE, amount |-> <<>>, unit |-> <<>>]

\* the corrected dosage of a match: f"{amount}{normalized_unit}"
CorrectedDosage(m) == m.amount \o UnitMapping(m.unit)
\* the leftmost position where the pattern matches, 0 if there is none
FirstDosageMatch(dosage) ==
  IF \E i \in 1..Len(dosage) : DosageMatchAt(dosage, i).ok
  THEN CHOOSE i \in 1..Len(dosage) :
         /\ DosageMatchAt(dosage, i).ok
         /\ \A j \in 1..(i - 1) : ~DosageMatchAt(dosage, j).ok
  ELSE 0
ValidatedDosage(dosage, i) ==
  IF i = 0 THEN [valid |-> FALSE, value |-> dosage]
  ELSE [valid |-> TRUE, value |-> CorrectedDosage(DosageMatchAt(dosage, i))]
\* PrescriptionErrorCorrector.validate_dosage: (is_valid, corrected_dosage)
validate_dosage(dosage) == ValidatedDosage(dosage, FirstDosageMatch(dosage))

\* re.search(r'\b' + pat + r'\b', text, re.IGNORECASE) for a pattern that
\* begins and ends with a word character
SearchWord(pat, text) ==
  \E i \in 1..Len(text) :
    LET e == i + Len(pat) - 1 IN
    /\ e <= Len(text)
    /\ \A k \in 1..Len(pat) : LowerChar(text[i + k - 1]) = LowerChar(pat[k])
    /\ i = 1 \/ text[i - 1] \notin WordChars
    /\ e = Len(text) \/ text[e + 1] \notin WordChars

\* error_correction.py:268  freq_patterns, in the order of the dict
FreqPatterns ==
  << [pat |-> <<"1", "-", "0", "-", "1">>,
      rep |-> <<"1", "-", "0", "-", "1", " ", "(", "t", "w", "i", "c", "e", " ",
                "d", "a", "i", "l", "y", ")">>],
     [pat |-> <<"1", "-", "1", "-", "1">>,
      rep |-> <<"1", "-", "1", "-", "1", " ", "(", "t", "h", "r", "e", "e", " ",
                "t", "i", "m", "e", "s", " ", "d", "a", "i", "l", "y", ")">>],
     [pat |-> <<"0", "-", "0", "-", "1">>,
      rep |-> <<"0", "-", "0", "-", "1", " ", "(", "o", "n", "c", "e", " ",
                "a", "t", " ", "n", "i", "g", "h", "t", ")">>],
     [pat |-> <<"O", "D">>,
      rep |-> <<"O", "n", "c", "e", " ", "D", "a", "i", "l", "y">>],
     [pat |-> <<"B", "D">>,
      rep |-> <<"T", "w", "i", "c", "e", " ", "D", "a", "i", "l", "y">>],
     [pat |-> <<"T", "D", "S">>,
      rep |-> <<"T", "h", "r", "e", "e", " ", "T", "i", "m", "e", "s", " ",
                "D", "a", "i", "l", "y">>],
     [pat |-> <<"Q", "I", "D">>,
      rep |-> <<"F", "o", "u", "r", " ", "T", "i", "m", "e", "s", " ",
                "D", "a", "i", "l", "y">>] >>

\* the replacement written behind the frequency it was found in
FrequencyAnnotated(frequency) ==
  IF \E i \in 1..Len(FreqPatterns) : SearchWord(FreqPatterns[i].pat, frequency)
  THEN [valid |-> TRUE,
        value |-> frequency \o <<" ">> \o
                  FreqPatterns[CHOOSE i \in 1..Len(FreqPatterns) :
                    /\ SearchWord(FreqPatterns[i].pat, frequency)
                    /\ \A j \in 1..(i - 1) :
                         ~SearchWord(FreqPatterns[j].pat, frequency)].rep]
  ELSE [valid |-> TRUE, value |-> frequency]
\* PrescriptionErrorCorrector.validate_frequency: (is_valid, normalized)
validate_frequency(frequency) ==
  IF \E i \in 1..Len(FreqPatterns) : SearchWord(FreqPatterns[i].pat, frequency)
  THEN [valid |-> TRUE,
        value |-> FreqPatterns[CHOOSE i \in 1..Len(FreqPatterns) :
                    /\ SearchWord(FreqPatterns[i].pat, frequency)
                    /\ \A j \in 1..(i - 1) :
                         ~SearchWord(FreqPatterns[j].pat, frequency)].rep]
  ELSE [valid |-> TRUE, value |-> frequency]

\* one row of the longest-common-subsequence table: acc holds the cells
\* 0..j-1 of the row of character c, prev the whole row above
RECURSIVE LcsRow(_, _, _, _, _)
LcsRow(c, b, prev, j, acc) ==
  IF j > Len(b) THEN acc
  ELSE LcsRow(c, b, prev, j + 1,
              Append(acc, IF c = b[j] THEN prev[j] + 1
                          ELSE IF prev[j + 1] >= acc[j] THEN prev[j + 1]
                          ELSE acc[j]))
RECURSIVE LcsRows(_, _, _, _)
LcsRows(a, b, i, prev) ==
  IF i > Len(a) THEN prev[Len(b) + 1]
  ELSE LcsRows(a, b, i + 1, LcsRow(a[i], b, prev, 1, <<0>>))
\* length of the longest common subsequence of a and b
LcsLen(a, b) == LcsRows(a, b, 1, [j \in 1..(Len(b) + 1) |-> 0])

\* rapidfuzz.fuzz.ratio: 100 * (1 - indel_distance / (len1 + len2)), a rational
FuzzRatio(a, b) ==
  IF Len(a) + Len(b) = 0 THEN RatInt(100)
  ELSE Rat(200 * LcsLen(a, b), Len(a) + Len(b))

\* the score of every name of the vocabulary for `query`, in list order
RECURSIVE NameScores(_, _, _)
NameScores(query, names, acc) ==
  IF Len(acc) = Len(names) THEN acc
  ELSE NameScores(query, names,
                  Append(acc, FuzzRatio(query, names[Len(acc) + 1])))

\* the indices of `names` by descending score, ties in list order
\* (process.extract sorts stably): index i enters the ranking r of the
\* indices before it behind every index whose score is not lower
InsertRanked(r, p, i) == SubSeq(r, 1, p) \o <<i>> \o SubSeq(r, p + 1, Len(r))
RECURSIVE RankedNames(_, _, _)
RankedNames(sc, i, r) ==
  IF i > Len(sc) THEN r
  ELSE RankedNames(sc, i + 1,
         InsertRanked(r, Cardinality({k \in 1..Len(r) : ~RatLess(sc[r[k]], sc[i])}), i))

\* the first m (name, score) pairs of the ranking r
TopMatches(names, sc, r, m) ==
  [k \in 1..m |-> [name |-> names[r[k]], score |-> sc[r[k]]]]
ExtractTop(names, sc, top_n) ==
  TopMatches(names, sc, RankedNames(sc, 1, <<>>),
             IF Len(names) < top_n THEN Len(names) ELSE top_n)

\* PrescriptionErrorCorrector.correct_drug_name(drug_name, top_n): the top_n
\* best (name, score) pairs, or [] without a vocabulary
correct_drug_name(drug_name, top_n, names) ==
  IF names = <<>> THEN <<>>
  ELSE ExtractTop(names, NameScores(drug_name, names, <<>>), top_n)

(***************************************************************************)
(* error_correction.py: the Corrector (correct_text and its three passes)  *)
(***************************************************************************)
\* s[i], or "" beyond the ends of s
CharAt(s, i) == IF i \in 1..Len(s) THEN s[i] ELSE ""
\* no word boundary needed, or a word boundary holds, between a word
\* character and its neighbour at position i
NotWord(s, i) == CharAt(s, i) \notin WordChars
NoMatch == [end |-> 0, rep |-> <<>>]

\* error_correction.py:104  (\d+)O+(\s*mg) -> \g<1>00\2, matched at i
MatchOmg(s, i) ==
  LET d == RunEnd(s, i, Digits)
      o == RunEnd(s, d + 1, {"O"})
      sp == RunEnd(s, o + 1, Spaces)
  IN IF /\ s[i] \in Digits
        /\ o >= d + 1
        /\ CharAt(s, sp + 1) = "m"
        /\ CharAt(s, sp + 2) = "g"
     THEN [end |-> sp + 2,
           rep |-> SubSeq(s, i, d) \o <<"0", "0">> \o SubSeq(s, o + 1, sp + 2)]
     ELSE NoMatch
\* error_correction.py:105  (\d+)O(\d+) with its O replaced by 0
MatchDigitO(s, i) ==
  LET d == RunEnd(s, i, Digits) IN
  IF /\ s[i] \in Digits
     /\ CharAt(s, d + 1) = "O"
     /\ CharAt(s, d + 2) \in Digits
  THEN [end |-> RunEnd(s, d + 2, Digits),
        rep |-> SubSeq(s, i, d) \o <<"0">> \o
                SubSeq(s, d + 2, RunEnd(s, d + 2, Digits))]
  ELSE NoMatch
\* error_correction.py:108-109  \bl-(\d)-l\b and I-(\d)-I -> 1-\1-1
MatchTriadLetter(s, i, c, bounded) ==
  IF /\ s[i] = c /\ CharAt(s, i + 1) = "-" /\ CharAt(s, i + 2) \in Digits
     /\ CharAt(s, i + 3) = "-" /\ CharAt(s, i + 4) = c
     /\ bounded => (NotWord(s, i - 1) /\ NotWord(s, i + 5))
  THEN [end |-> i + 4, rep |-> <<"1", "-", s[i + 2], "-", "1">>]
  ELSE NoMatch
\* error_correction.py:112  \bS\s+days\b, ignoring case -> "5 days"
MatchSDays(s, i) ==
  LET sp == RunEnd(s, i + 1, Spaces) IN
  IF /\ LowerChar(s[i]) = "s" /\ NotWord(s, i - 1)
     /\ sp >= i + 1
     /\ sp + 4 <= Len(s)
     /\ LowerStr(SubSeq(s, sp + 1, sp + 4)) = <<"d", "a", "y", "s">>
     /\ NotWord(s, sp + 5)
  THEN [end |-> sp + 4, rep |-> <<"5", " ", "d", "a", "y", "s">>]
  ELSE NoMatch
\* error_correction.py:128-133  fix_dosage: the groups that are digits or a
\* substring of 'Oo', their O and o turned to 0, joined by '-'
FixDosage(g1, g2, g3) ==
  g1 \o (IF (\A k \in 1..Len(g2) : g2[k] \in Digits)
            \/ g2 \in {<<"O">>, <<"o">>, <<"O", "o">>}
         THEN <<"-">> \o [k \in 1..Len(g2) |->
                            IF g2[k] \in {"O", "o"} THEN "0" ELSE g2[k]]
         ELSE <<>>) \o <<"-">> \o g3
\* error_correction.py:136  (\d+)\s*[-–]\s*([Oo\d]+)\s*[-–]\s*(\d+) at i
MatchTriad(s, i) ==
  LET d == RunEnd(s, i, Digits)
      a == RunEnd(s, d + 1, Spaces)
      b == RunEnd(s, a + 2, Spaces)
      g == RunEnd(s, b + 1, Digits \cup {"O", "o"})
      c == RunEnd(s, g + 1, Spaces)
      f == RunEnd(s, c + 2, Spaces)
  IN IF /\ s[i] \in Digits
        /\ CharAt(s, a + 1) \in Dashes
        /\ g >= b + 1
        /\ CharAt(s, c + 1) \in Dashes
        /\ CharAt(s, f + 1) \in Digits
     THEN [end |-> RunEnd(s, f + 1, Digits),
           rep |-> FixDosage(SubSeq(s, i, d), SubSeq(s, b + 1, g),
                             SubSeq(s, f + 1, RunEnd(s, f + 1, Digits)))]
     ELSE NoMatch
\* the match of one of the patterns at position i of s
MatchAt(pat, s, i) ==
  CASE pat = "Omg" -> MatchOmg(s, i)
    [] pat = "digitO" -> MatchDigitO(s, i)
    [] pat = "l-l" -> MatchTriadLetter(s, i, "l", TRUE)
    [] pat = "I-I" -> MatchTriadLetter(s, i, "I", FALSE)
    [] pat = "Sdays" -> MatchSDays(s, i)
    [] pat = "triad" -> MatchTriad(s, i)
\* re.sub(pat, rep, s): the matches from left to right, none overlapping;
\* acc is the text built from s[1..i-1], n the number of matches so far
RECURSIVE ReSub(_, _, _, _, _)
ReSub(pat, s, i, acc, n) ==
  IF i > Len(s) THEN [text |-> acc, n |-> n]
  ELSE IF MatchAt(pat, s, i).end > 0
       THEN ReSub(pat, s, MatchAt(pat, s, i).end + 1,
                  acc \o MatchAt(pat, s, i).rep, n + 1)
       ELSE ReSub(pat, s, i + 1, Append(acc, s[i]), n)
Sub(pat, s) == ReSub(pat, s, 1, <<>>, 0).text

\* error_correction.py:116  the positions of zip(original, text) that differ
CountChanged(original, text) ==
  IF text = original THEN 0
  ELSE Cardinality({k \in 1..(IF Len(original) < Len(text)
                              THEN Len(original) ELSE Len(text)) :
                      original[k] # text[k]})
\* PrescriptionErrorCorrector._correct_ocr_patterns: (text, corrections)
CorrectOcrPatterns(text) ==
  LET out == Sub("Sdays", Sub("I-I", Sub("l-l", Sub("digitO", Sub("Omg", text)))))
  IN [text |-> out, corrections |-> CountChanged(text, out)]
\* PrescriptionErrorCorrector._correct_dosage_format: (text, corrections),
\* one correction for every match
CorrectDosageFormat(text) ==
  LET r == ReSub("triad", text, 1, <<>>, 0)
  IN [text |-> r.text, corrections |-> r.n]

\* str.split(): the maximal runs of characters that are no whitespace
RECURSIVE Split(_, _, _)
Split(s, i, acc) ==
  IF i > Len(s) THEN acc
  ELSE IF s[i] \in Spaces THEN Split(s, i + 1, acc)
  ELSE LET e == RunEnd(s, i, {s[k] : k \in 1..Len(s)} \ Spaces)
       IN Split(s, e + 1, Append(acc, SubSeq(s, i, e)))
\* sep.join(words)
RECURSIVE Join(_, _, _, _)
Join(sep, words, i, acc) ==
  IF i > Len(words) THEN acc
  ELSE Join(sep, words, i + 1,
            (IF i = 1 THEN acc ELSE Append(acc, sep)) \o words[i])

\* error_correction.py:158  the shortest word the repair pass looks at
MinWordLen == 4
\* error_correction.py:168  a match replaces the word when its score is above
ReplaceAbove == 85
\* error_correction.py:176  score_cutoff of process.extractOne
ScoreCutoff == 75
\* PrescriptionErrorCorrector._fuzzy_match_drug: the best name of the
\* vocabulary (the first of the best), none below the cutoff
FuzzyMatchDrug(word, names) ==
  LET best == ExtractTop(names, NameScores(word, names, <<>>), 1)[1] IN
  IF names # <<>> /\ ~RatLess(best.score, RatInt(ScoreCutoff))
  THEN [found |-> TRUE, name |-> best.name, score |-> best.score]
  ELSE [found |-> FALSE, name |-> <<>>, score |-> NoRat]
\* the word replaced by every match the cutoff lets through
ReplaceAtCutoff(word, m, above) ==
  IF m.found THEN [word |-> m.name, corrections |-> 1]
  ELSE [word |-> word, corrections |-> 0]
ReplaceWithMatch(word, m, above) ==
  IF m.found /\ RatLess(RatInt(above), m.score)
  THEN [word |-> m.name, corrections |-> 1]
  ELSE [word |-> word, corrections |-> 0]
\* the body of the loop of _correct_drug_names for one word
CorrectWord(word, names) ==
  IF Len(word) < MinWordLen \/ (\A k \in 1..Len(word) : word[k] \in Digits)
  THEN [word |-> word, corrections |-> 0]
  ELSE IF word[1] \in Uppers /\ (\A k \in 1..Len(word) : word[k] \in Letters)
  THEN ReplaceWithMatch(word, FuzzyMatchDrug(word, names), ReplaceAbove)
  ELSE [word |-> word, corrections |-> 0]
RECURSIVE CorrectWords(_, _, _, _)
CorrectWords(words, names, acc, n) ==
  IF Len(acc) = Len(words) THEN [words |-> acc, corrections |-> n]
  ELSE CorrectWords(words, names,
         Append(acc, CorrectWord(words[Len(acc) + 1], names).word),
         n + CorrectWord(words[Len(acc) + 1], names).corrections)
\* PrescriptionErrorCorrector._correct_drug_names: (text, corrections)
CorrectDrugNames(text, names) ==
  IF names = <<>> THEN [text |-> text, corrections |-> 0]
  ELSE LET r == CorrectWords(Split(text, 1, <<>>), names, <<>>, 0)
       IN [text |-> Join(" ", r.words, 1, <<>>), corrections |-> r.corrections]

(***************************************************************************)
(* medical_ner.py: the isolation of the medication section                 *)
(***************************************************************************)
\* medical_ner.py:167  medication_markers
MedicationMarkers ==
  { <<"a", "d", "v", "i", "c", "e">>, <<"r", "x">>,
    <<"p", "r", "e", "s", "c", "r", "i", "p", "t", "i", "o", "n">>,
    <<"m", "e", "d", "i", "c", "i", "n", "e">>,
    <<"m", "e", "d", "i", "c", "a", "t", "i", "o", "n">>,
    <<"t", "r", "e", "a", "t", "m", "e", "n", "t">> }
\* medical_ner.py:170-173  skip_keywords
SkipKeywords ==
  { <<"m", "b", "b", "s">>, <<"m", "d">>, <<"d", "o", "c", "t", "o", "r">>,
    <<"d", "r", ".">>, <<"c", "l", "i", "n", "i", "c">>,
    <<"h", "o", "s", "p", "i", "t", "a", "l">>, <<"p", "h", "o", "n", "e">>,
    <<"p", "h", ":">>, <<"r", "e", "g">>,
    <<"r", "e", "g", "i", "s", "t", "r", "a", "t", "i", "o", "n">>,
    <<"c", "o", "l", "l", "e", "g", "e">>,
    <<"p", "a", "t", "i", "e", "n", "t">>, <<"n", "a", "m", "e", ":">>,
    <<"a", "g", "e", ":">>, <<"g", "e", "n", "d", "e", "r", ":">>,
    <<"w", "e", "i", "g", "h", "t", ":">>, <<"d", "a", "t", "e", ":">>,
    <<"c", "l", "i", "n", "i", "c", "a", "l">>,
    <<"d", "e", "s", "c", "r", "i", "p", "t", "i", "o", "n", ":">>,
    <<"d", "i", "a", "g", "n", "o", "s", "i", "s", ":">> }
\* medical_ner.py:196  medicine_prefixes
MedicinePrefixes ==
  { <<"s", "y", "p">>, <<"t", "a", "b">>, <<"c", "a", "p">>,
    <<"i", "n", "j">>, <<"o", "i", "n", "t">>, <<"d", "r", "o", "p", "s">>,
    <<"m", "g">>, <<"m", "l">> }
\* any(k in line.lower() for k in keywords)
HasAny(keywords, line) ==
  \E k \in keywords : \E i \in 1..(Len(line) - Len(k) + 1) :
    LowerStr(SubSeq(line, i, i + Len(k) - 1)) = k
\* text.split('\n'): acc holds the lines before the one being read, cur the
\* characters of that line read so far
RECURSIVE SplitLines(_, _, _, _)
SplitLines(text, i, cur, acc) ==
  IF i > Len(text) THEN Append(acc, cur)
  ELSE IF text[i] = "\n" THEN SplitLines(text, i + 1, <<>>, Append(acc, cur))
  ELSE SplitLines(text, i + 1, Append(cur, text[i]), acc)
\* medical_ner.py:175-192  the first loop: the lines kept once a marker line
\* has been seen
RECURSIVE SectionLines(_, _, _, _)
SectionLines(lines, i, in_medication_section, acc) ==
  IF i > Len(lines) THEN acc
  ELSE IF \A k \in 1..Len(lines[i]) : lines[i][k] \in Spaces
       THEN SectionLines(lines, i + 1, in_medication_section, acc)
  ELSE IF HasAny(MedicationMarkers, lines[i])
       THEN SectionLines(lines, i + 1, TRUE, acc)
  ELSE IF HasAny(SkipKeywords, lines[i])
       THEN SectionLines(lines, i + 1, in_medication_section, acc)
  ELSE SectionLines(lines, i + 1, in_medication_section,
                    IF in_medication_section THEN Append(acc, lines[i]) ELSE acc)
\* medical_ner.py:197-204  the second loop, over all the lines
PrefixLines(lines) ==
  SelectSeq(lines, LAMBDA l : /\ ~HasAny(SkipKeywords, l)
                              /\ HasAny(MedicinePrefixes, l))
\* medical_ner.py:194-209  the second loop runs when the first kept no line;
\* the whole text is returned when no line is kept at all
SectionOrText(text, lines, medication_lines) ==
  IF medication_lines # <<>> THEN Join("\n", medication_lines, 1, <<>>)
  ELSE IF PrefixLines(lines) # <<>> THEN Join("\n", PrefixLines(lines), 1, <<>>)
  ELSE text
SectionOf(text, lines) ==
  SectionOrText(text, lines, SectionLines(lines, 1, FALSE, <<>>))
\* MedicalNER._extract_medication_section
extract_medication_section(text) == SectionOf(text, SplitLines(text, 1, <<>>, <<>>))

(***************************************************************************)
(* Values of the fields of a prescription item (a Python dict)             *)
(***************************************************************************)
\* a string, None (or a missing key), a value that is no string (500)
Str(x) == [t |-> "str", v |-> x]
None == [t |-> "none", v |-> <<>>]
NonStr(x) == [t |-> "num", v |-> x]
\* bool(value) of item.get(key)
Truthy(val) == \/ val.t = "str" /\ val.v # <<>>
               \/ val.t = "num"
\* the confidence of an item: a number, no key, or a value that is no number
ConfNum(n) == [t |-> "num", n |-> n]
ConfMissing == [t |-> "missing", n |-> 0]
ConfBad == [t |-> "str", n |-> 0]
NoSuggestions == [set |-> FALSE, list |-> <<>>]

NewItem(name, dosage, frequency, duration, route, quantity, instructions, confidence) ==
  [drug_name |-> name, dosage |-> dosage, frequency |-> frequency,
   duration |-> duration, route |-> route, quantity |-> quantity,
   instructions |-> instructions, confidence |-> confidence,
   dosage_valid |-> "unset", frequency_valid |-> "unset",
   drug_suggestions |-> NoSuggestions]

(***************************************************************************)
(* medical_ner.py: entities and the deterministic structuring              *)
(***************************************************************************)
Entity(type, value, confidence) ==
  [type |-> type, value |-> value, confidence |-> confidence]

NoEntities == [drugs |-> <<>>, dosages |-> <<>>, frequencies |-> <<>>,
               durations |-> <<>>, routes |-> <<>>, quantities |-> <<>>,
               dates |-> <<>>, ages |-> <<>>, instructions |-> <<>>]

EntityKinds == {"drugs", "dosages", "frequencies", "durations", "routes",
                "quantities", "dates", "ages", "instructions"}

\* entities[kind][0].value if entities.get(kind) else None
\* the value of the last entity of the list
LastValue(list) == IF list # <<>> THEN Str(list[Len(list)].value) ELSE None
FirstValue(list) == IF list # <<>> THEN Str(list[1].value) ELSE None

\* MedicalNER.structure_prescription(text, entities)
structure_prescription(entities) ==
  [i \in 1..Len(entities.drugs) |->
     NewItem(Str(entities.drugs[i].value),
             FirstValue(entities.dosages),
             FirstValue(entities.frequencies),
             FirstValue(entities.durations),
             FirstValue(entities.routes),
             FirstValue(entities.quantities),
             [k \in 1..Len(entities.instructions) |-> entities.instructions[k].value],
             ConfNum(entities.drugs[i].confidence))]

\* pipeline.py:112  sum(len(v) for v in entities.values())
EntityCount(entities) ==
  Len(entities.drugs) + Len(entities.dosages) + Len(entities.frequencies)
  + Len(entities.durations) + Len(entities.routes) + Len(entities.quantities)
  + Len(entities.dates) + Len(entities.ages) + Len(entities.instructions)

(***************************************************************************)
(* pipeline.py: the decisions and computations of process_prescription     *)
(***************************************************************************)
\* pipeline.py:118  ocr_confidence < 0.6
LowConfidence == 60
\* pipeline.py:120  len(entities.get('drugs', [])) > 10
TooManyDrugs == 10
\* pipeline.py:132  item['confidence'] = 0.85
DefaultGeminiConfidence == 85
\* pipeline.py:167  item.get('confidence', 1.0) < 0.8
SuggestBelow == 80
\* pipeline.py:168  top_n=3
TopN == 3
\* pipeline.py:178  item.get('confidence', 0.5)
DefaultItemConfidence == 50

\* the threshold taken as inclusive
UseGeminiInclusive(ocr_confidence, drug_count) ==
  \/ ocr_confidence <= LowConfidence
  \/ drug_count = 0
  \/ drug_count > TooManyDrugs

\* pipeline.py:118-120  use_gemini
UseGemini(ocr_confidence, drug_count) ==
  \/ ocr_confidence < LowConfidence
  \/ drug_count = 0
  \/ drug_count > TooManyDrugs

\* error_correction.py:85-89  the confidence correct_text returns for a text
\* of total_words words in which it made corrections_made corrections
\* the formula for a text with words, and 1.0 for a text without
ConfidenceOneWithoutWords(corrections_made, total_words) ==
  IF total_words > 0
  THEN IF corrections_made >= total_words THEN RatInt(50)
       ELSE RatMax(RatInt(50),
                   Rat(100 * (total_words - corrections_made), total_words))
  ELSE RatInt(100)
CorrectionConfidence(corrections_made, total_words) ==
  IF total_words > 0
  THEN IF corrections_made >= total_words THEN RatInt(50)
       ELSE RatMax(RatInt(50),
                   Rat(100 * (total_words - corrections_made), total_words))
  ELSE RatInt(80)

\* PrescriptionErrorCorrector.correct_text: the three passes in order on
\* the text, the corrections summed, the confidence from the words of the
\* input: (corrected_text, confidence), and the corrections for the record
CorrectTextFrom(text, p1, p2, p3) ==
  [text |-> p3.text,
   corrections |-> p1.corrections + p2.corrections + p3.corrections,
   confidence |-> CorrectionConfidence(
                    p1.corrections + p2.corrections + p3.corrections,
                    Len(Split(text, 1, <<>>)))]
CorrectTextPass3(text, names, p1, p2) ==
  CorrectTextFrom(text, p1, p2, CorrectDrugNames(p2.text, names))
CorrectTextPass2(text, names, p1) ==
  CorrectTextPass3(text, names, p1, CorrectDosageFormat(p1.text))
correct_text(text, names) ==
  CorrectTextPass2(text, names, CorrectOcrPatterns(text))

\* the default written over every item
DefaultConfidenceAlways(item) ==
  [item EXCEPT !.confidence = ConfNum(DefaultGeminiConfidence)]

\* pipeline.py:130-132  for item in prescription_items:
\*                        if 'confidence' not in item: item['confidence'] = 0.85
DefaultConfidence(item) ==
  IF item.confidence.t = "missing"
  THEN [item EXCEPT !.confidence = ConfNum(DefaultGeminiConfidence)]
  ELSE item

\* pipeline.py:157-160  if item.get('dosage'): validate_dosage(item['dosage'])
DosageRaises(item) == Truthy(item.dosage) /\ item.dosage.t # "str"
SetDosage(item, r) ==
  [item EXCEPT !.dosage = Str(r.value),
               !.dosage_valid = IF r.valid THEN "true" ELSE "false"]
ValidateDosage(item) ==
  IF Truthy(item.dosage) THEN SetDosage(item, validate_dosage(item.dosage.v))
  ELSE item

\* pipeline.py:162-165  if item.get('frequency'): validate_frequency(...)
FrequencyRaises(item) == Truthy(item.frequency) /\ item.frequency.t # "str"
SetFrequency(item, r) ==
  [item EXCEPT !.frequency = Str(r.value),
               !.frequency_valid = IF r.valid THEN "true" ELSE "false"]
ValidateFrequency(item) ==
  IF Truthy(item.frequency)
  THEN SetFrequency(item, validate_frequency(item.frequency.v))
  ELSE item

\* pipeline.py:167  item.get('drug_name') and item.get('confidence', 1.0) < 0.8
\* raises TypeError when the confidence is no number
SuggestRaises(item) == Truthy(item.drug_name) /\ item.confidence.t = "str"
\* suggestions also for an item whose confidence is the threshold itself
NeedsSuggestionsInclusive(item) ==
  /\ Truthy(item.drug_name)
  /\ item.confidence.t = "num"
  /\ item.confidence.n <= SuggestBelow
NeedsSuggestions(item) ==
  /\ Truthy(item.drug_name)
  /\ item.confidence.t = "num"
  /\ item.confidence.n < SuggestBelow
\* pipeline.py:169-172  {'name': name, 'confidence': score/100.0}
SuggestionList(sug) ==
  [k \in 1..Len(sug) |-> [name |-> sug[k].name,
                          confidence |-> RatDivInt(sug[k].score, 100)]]
Suggest(item, names) ==
  IF NeedsSuggestions(item)
  THEN [item EXCEPT !.drug_suggestions =
          [set |-> TRUE,
           list |-> SuggestionList(correct_drug_name(item.drug_name.v, TopN, names))]]
  ELSE item

\* pipeline.py:156-172  the Validator on one item: the item as the loop body
\* leaves it, and whether the body raised (a value of the wrong type)
ValidateFromSuggest(item, names) ==
  IF SuggestRaises(item) THEN [raised |-> TRUE, item |-> item]
  ELSE [raised |-> FALSE, item |-> Suggest(item, names)]
ValidateFromFrequency(item, names) ==
  IF FrequencyRaises(item) THEN [raised |-> TRUE, item |-> item]
  ELSE ValidateFromSuggest(ValidateFrequency(item), names)
ValidateItem(item, names) ==
  IF DosageRaises(item) THEN [raised |-> TRUE, item |-> item]
  ELSE ValidateFromFrequency(ValidateDosage(item), names)

\* pipeline.py:156  for item in prescription_items: the list after the loop
\* (items are validated in place, up to and including the first that raises);
\* v is the loop body's outcome on each item
ValidatedUpTo(items, v, stop) ==
  [k \in 1..Len(items) |-> IF k <= stop THEN v[k].item ELSE items[k]]
FirstRaise(v) ==
  IF \E k \in 1..Len(v) : v[k].raised
  THEN CHOOSE k \in 1..Len(v) : v[k].raised /\ \A j \in 1..(k - 1) : ~v[j].raised
  ELSE 0
ValidateOutcome(items, v, first) ==
  [raised |-> first # 0,
   items |-> ValidatedUpTo(items, v, IF first = 0 THEN Len(items) ELSE first)]
ValidateEach(items, v) == ValidateOutcome(items, v, FirstRaise(v))
ValidateAll(items, names) ==
  ValidateEach(items, [k \in 1..Len(items) |-> ValidateItem(items[k], names)])

\* sum(item.get('confidence', 0.5) for item in prescription_items)
RECURSIVE SumConfidence(_, _)
SumConfidence(items, k) ==
  IF k > Len(items) THEN 0
  ELSE (IF items[k].confidence.t = "missing" THEN DefaultItemConfidence
        ELSE items[k].confidence.n) + SumConfidence(items, k + 1)

\* the mean taken as the per-item default when there is no item
MeanItemConfidenceHalf(items) ==
  IF Len(items) = 0 THEN RatInt(DefaultItemConfidence)
  ELSE Rat(SumConfidence(items, 1), Len(items))

\* pipeline.py:178  sum(...) / max(len(prescription_items), 1)
MeanItemConfidence(items) ==
  Rat(SumConfidence(items, 1), IF Len(items) > 1 THEN Len(items) ELSE 1)

\* pipeline.py:175-180  overall_confidence = sum(confidences) / len(confidences)
OverallConfidence(ocr_confidence, correction_confidence, items) ==
  RatDivInt(RatAdd(RatAdd(RatInt(ocr_confidence), correction_confidence),
                   MeanItemConfidence(items)), 3)

\* the sum at pipeline.py:178 raises TypeError on a confidence that is no number
ConfidenceRaises(items) ==
  \E k \in 1..Len(items) : items[k].confidence.t = "str"

(***************************************************************************)
(* Inputs of a pipeline run                                                *)
(***************************************************************************)
Calpol == <<"C", "a", "l", "p", "o", "l">>
Calpal == <<"C", "a", "l", "p", "a", "l">>
Crocin == <<"C", "r", "o", "c", "i", "n">>
Amoxil == <<"A", "m", "o", "x", "i", "l">>
\* PrescriptionErrorCorrector.drug_names once the dataset is loaded
Vocabulary == <<Crocin, Calpol, Amoxil>>

\* the largest number of drug entities of a text
MaxDrugs == 11
\* the largest number of words of a recognised text
MaxWords == 2

\* n drug entities found by the medicine-prefix pattern (confidence 0.9)
PrefixDrugs(n) ==
  [i \in 1..n |-> Entity("DRUG_NAME", IF i % 2 = 1 THEN Calpol ELSE Crocin, 90)]
\* one drug entity found by the capitalised-word pattern (confidence 0.6)
CapitalDrugs == <<Entity("DRUG_NAME", Calpal, 60)>>
DrugLists == {PrefixDrugs(n) : n \in {0, 1, 2, TooManyDrugs, MaxDrugs}}
             \cup {CapitalDrugs}

\* the other entities of a text
OtherEntities ==
  { NoEntities,
    [NoEntities EXCEPT
       !.dosages = <<Entity("DOSAGE", <<"5", "0", "0", "M", "G">>, 90)>>,
       !.frequencies = <<Entity("FREQUENCY",
            <<"T", "w", "i", "c", "e", " ", "D", "a", "i", "l", "y">>, 85)>>,
       !.durations = <<Entity("DURATION", <<"5", " ", "d", "a", "y", "s">>, 85)>>,
       !.ages = <<Entity("AGE", <<"7", " ", "y", "e", "a", "r", "s">>, 85)>>,
       !.instructions = <<Entity("INSTRUCTION",
            <<"w", "i", "t", "h", " ", "f", "o", "o", "d">>, 75)>>],
    [NoEntities EXCEPT
       !.dosages = <<Entity("DOSAGE", <<"5", "m", "l">>, 90),
                     Entity("DOSAGE", <<"2", "5", "0", "m", "g">>, 90)>>,
       !.frequencies = <<Entity("FREQUENCY", <<"1", "-", "0", "-", "1">>, 85)>>,
       !.routes = <<Entity("ROUTE", <<"o", "r", "a", "l">>, 80)>>,
       !.quantities = <<Entity("QUANTITY", <<"1", "0">>, 80)>>,
       !.instructions = <<Entity("INSTRUCTION",
            <<"w", "i", "t", "h", " ", "f", "o", "o", "d">>, 75),
          Entity("INSTRUCTION",
            <<"a", "t", " ", "b", "e", "d", "t", "i", "m", "e">>, 75)>>] }

\* what extract_entities can return
EntitySets == {[o EXCEPT !.drugs = d] : o \in OtherEntities, d \in DrugLists}

\* one element of the medicine list of the fallback extractor: a dict (an
\* item) or something else (a bare string)
Medicine(item) == [dict |-> TRUE, item |-> item]
NotADict == [dict |-> FALSE,
             item |-> NewItem(None, None, None, None, None, None, <<>>, ConfMissing)]
MedicineKinds ==
  { Medicine(NewItem(Str(Calpol), Str(<<"5", "0", "0", " ", "M", "G">>),
                     Str(<<"B", "D">>), None, None, None, <<>>, ConfMissing)),
    Medicine(NewItem(Str(Calpal), Str(<<"5", "m", "l">>), None, None, None,
                     None, <<>>, ConfNum(70))),
    Medicine(NewItem(Str(Amoxil), None, None, None, None, None, <<>>,
                     ConfNum(SuggestBelow))),
    Medicine(NewItem(Str(Calpol), NonStr(<<"5", "0", "0">>), None, None, None,
                     None, <<>>, ConfMissing)),
    Medicine(NewItem(Str(Crocin), None, None, None, None, None, <<>>, ConfBad)),
    NotADict }
\* the medicine lists of the model: one element of any kind, or a well-formed
\* item followed by an element of any kind
WellFormed == {m \in MedicineKinds :
                 /\ m.dict
                 /\ m.item.dosage.t # "num"
                 /\ m.item.confidence.t # "str"}
MedicineLists == {<<m>> : m \in MedicineKinds}
                 \cup {<<a, b>> : a \in WellFormed, b \in MedicineKinds}

\* what GeminiOCRCorrector.correct_and_extract can return when it has a model
\* (gemini_correction.py:65-82 and _parse_gemini_response)
GeminiResults ==
  { [status |-> "error", medicines |-> <<>>],
    [status |-> "parsed_text", medicines |-> <<>>],
    [status |-> "success", medicines |-> <<>>] }
  \cup {[status |-> "success", medicines |-> m] : m \in MedicineLists}
\* gemini_correction.py:61-63  no model
GeminiUnavailable == [status |-> "gemini_unavailable", medicines |-> <<>>]
NoGeminiResult == [status |-> "", medicines |-> <<>>]

\* (corrections_made, total_words) of a recognised text
CorrectionCounts == {<<0, 0>>} \cup ((0..MaxWords) \X (1..MaxWords))

\* the arguments of process_prescription that are still to be read: whether
\* image_path can be decoded, and ocr_engine
RunInputs == [decodable : BOOLEAN, ocr_engine : Modes]
NoInput == [decodable |-> FALSE, ocr_engine |-> ""]

(***************************************************************************)
(* State                                                                   *)
(***************************************************************************)
VARIABLES
  canInit,      \* environment: outcome of creating each backend
  engines,      \* PrescriptionOCR.engines: "unset" (no key), "None", "handle"
  initialized,  \* _easyocr_initialized / _tesseract_initialized
  opc,          \* per invocation: position inside PrescriptionOCR
  call,         \* per invocation: [mode, img, fresh] of the running call
  eng,          \* per invocation: local `engine` of extract_text
  ens_i,        \* per invocation: index of the ensemble loop
  ens_results,  \* per invocation: local list `results` (object references)
  objs,         \* per invocation: the result dicts, by producing backend
  ret,          \* per invocation: what the recognition call returned/raised
  gemini_corrector, \* pipeline.gemini_corrector: "None", "no_model", "model"
  drug_names,   \* corrector.drug_names (<<>> when the dataset did not load)
  ppc,          \* position of the run inside process_prescription
  input,        \* arguments of the run still to be read: [decodable, ocr_engine]
  results,      \* the envelope `results`
  ocr_confidence,         \* local of the run
  correction_confidence,  \* local of the run
  entities,     \* local of the run
  use_gemini,   \* local of the run
  gemini_result, \* local of the run: what correct_and_extract returned
  gemini_calls, \* history: calls of correct_and_extract in the run
  arg,          \* a function called on its own: its argument
  res           \* a function called on its own: what it has returned so far

ocrVars == <<canInit, engines, initialized, opc, call, eng, ens_i,
             ens_results, objs, ret>>
pipeVars == <<gemini_corrector, drug_names, ppc, input, results,
              ocr_confidence, correction_confidence, entities, use_gemini,
              gemini_result, gemini_calls>>
fnVars == <<arg, res>>
\* no function is being called on its own
NoArg == <<>>
NoRes == <<>>

NoResult == [made |-> FALSE, text |-> "", confidence |-> 0,
             engine_used |-> "", all_engines |-> <<>>]
NoRet == [kind |-> "none", obj |-> "", error |-> ""]
NoCall == [mode |-> "", img |-> NoImage, fresh |-> FALSE]
At(l) == [at |-> l, b |-> "-"]
AtB(l, b) == [at |-> l, b |-> b]

\* dict.get(name) is truthy
Available(e, b) == e[b] = "handle"

\* PrescriptionOCR.__init__
OcrInit ==
  /\ canInit \in [Backends -> InitKinds]
  /\ engines = [b \in Backends |-> "unset"]
  /\ initialized = [b \in Backends |-> FALSE]
  /\ opc = [t \in Threads |-> At("idle")]
  /\ call = [t \in Threads |-> NoCall]
  /\ eng = [t \in Threads |-> ""]
  /\ ens_i = [t \in Threads |-> 1]
  /\ ens_results = [t \in Threads |-> <<>>]
  /\ objs = [t \in Threads |-> [b \in Backends |-> NoResult]]
  /\ ret = [t \in Threads |-> NoRet]

\* the object is as __init__ left it
Fresh == /\ \A b \in Backends : engines[b] = "unset"
         /\ \A b \in Backends : ~initialized[b]

(***************************************************************************)
(* PrescriptionOCR: entry of a recognition call                            *)
(***************************************************************************)
\* extract_with_ensemble / extract_text entered with `mode` on image `img`
OcrBegin(t, mode, img) ==
  /\ opc[t].at = "idle"
  /\ call' = [call EXCEPT ![t] = [mode |-> mode, img |-> img, fresh |-> Fresh]]
  /\ eng' = [eng EXCEPT ![t] = IF mode = "ensemble" THEN "" ELSE mode]
  /\ ens_i' = [ens_i EXCEPT ![t] = 1]
  /\ ens_results' = [ens_results EXCEPT ![t] = <<>>]
  /\ objs' = [objs EXCEPT ![t] = [b \in Backends |-> NoResult]]
  /\ ret' = [ret EXCEPT ![t] = NoRet]
  /\ opc' = [opc EXCEPT ![t] =
               IF mode = "ensemble" THEN At("ens_loop")
               ELSE AtB("init_check", "easyocr")]
  /\ UNCHANGED <<canInit, engines, initialized>>

\* the locals of a finished call go out of scope
OcrEnd(t) ==
  /\ opc[t].at = "returned"
  /\ opc' = [opc EXCEPT ![t] = At("idle")]
  /\ call' = [call EXCEPT ![t] = NoCall]
  /\ eng' = [eng EXCEPT ![t] = ""]
  /\ ens_i' = [ens_i EXCEPT ![t] = 1]
  /\ ens_results' = [ens_results EXCEPT ![t] = <<>>]
  /\ objs' = [objs EXCEPT ![t] = [b \in Backends |-> NoResult]]
  /\ ret' = [ret EXCEPT ![t] = NoRet]
  /\ UNCHANGED <<canInit, engines, initialized>>

(***************************************************************************)
(* PrescriptionOCR._initialize_engines, one step per shared access         *)
(***************************************************************************)
AfterInit(b) == IF b = "easyocr" THEN AtB("init_check", "tesseract")
                ELSE At("select")

\* if not self._<b>_initialized: try: easyocr.Reader(...) /
\* pytesseract.get_tesseract_version().  The flag is read and the creation
\* started; the creation returns (init_assign) or raises (init_except), and
\* the invocation is inside the initialisation body until it has written.
InitCheck(t, b) ==
  /\ opc[t] = AtB("init_check", b)
  /\ IF initialized[b]
     THEN opc' = [opc EXCEPT ![t] = AfterInit(b)]
     ELSE \/ /\ canInit[b] \in {"ok", "flaky"}
             /\ opc' = [opc EXCEPT ![t] = AtB("init_assign", b)]
          \/ /\ canInit[b] \in {"flaky"}
             /\ opc' = [opc EXCEPT ![t] = AtB("init_except", b)]
  /\ UNCHANGED <<canInit, engines, initialized, call, eng, ens_i,
                 ens_results, objs, ret>>

\* self.engines[b] = <handle>
InitAssign(t, b) ==
  /\ opc[t] = AtB("init_assign", b)
  /\ engines' = [engines EXCEPT ![b] = "handle"]
  /\ opc' = [opc EXCEPT ![t] = AtB("init_flag", b)]
  /\ UNCHANGED <<canInit, initialized, call, eng, ens_i, ens_results, objs, ret>>

\* self._<b>_initialized = True
InitFlag(t, b) ==
  /\ opc[t] = AtB("init_flag", b)
  /\ initialized' = [initialized EXCEPT ![b] = TRUE]
  /\ opc' = [opc EXCEPT ![t] = AfterInit(b)]
  /\ UNCHANGED <<canInit, engines, call, eng, ens_i, ens_results,
                 objs, ret>>

\* except Exception: self.engines[b] = None
InitExcept(t, b) ==
  /\ opc[t] = AtB("init_except", b)
  /\ engines' = [engines EXCEPT ![b] = "None"]
  /\ opc' = [opc EXCEPT ![t] = AfterInit(b)]
  /\ UNCHANGED <<canInit, initialized, call, eng, ens_i, ens_results,
                 objs, ret>>

(***************************************************************************)
(* PrescriptionOCR.extract_text after the initialisation                   *)
(***************************************************************************)
\* extract_text leaves with a result object or an exception: inside the
\* ensemble loop the result is appended (or the exception logged) and the
\* loop goes on, otherwise the call is over
Leave(t, kind, obj, err) ==
  IF call[t].mode = "ensemble"
  THEN /\ ens_results' = [ens_results EXCEPT ![t] =
                            IF kind = "ok" THEN Append(@, obj) ELSE @]
       /\ ens_i' = [ens_i EXCEPT ![t] = @ + 1]
       /\ opc' = [opc EXCEPT ![t] = At("ens_loop")]
       /\ ret' = ret
  ELSE /\ ret' = [ret EXCEPT ![t] = [kind |-> kind, obj |-> obj, error |-> err]]
       /\ opc' = [opc EXCEPT ![t] = At("returned")]
       /\ UNCHANGED <<ens_results, ens_i>>

\* if engine == 'easyocr': return self._extract_with_easyocr(image)
\* elif engine == 'tesseract': ... else: raise ValueError("Unknown engine")
Dispatch(t, e) ==
  IF e \in Backends
  THEN /\ eng' = [eng EXCEPT ![t] = e]
       /\ opc' = [opc EXCEPT ![t] = AtB("extract", e)]
       /\ UNCHANGED <<ens_results, ens_i, ret>>
  ELSE /\ eng' = eng
       /\ Leave(t, "error", "", "Unknown engine")

\* if engine == 'auto': if self.engines.get('easyocr'): engine = 'easyocr'
SelectAuto(t) ==
  /\ opc[t] = At("select")
  /\ IF eng[t] = "auto"
     THEN IF Available(engines, "easyocr")
          THEN Dispatch(t, "easyocr")
          ELSE /\ opc' = [opc EXCEPT ![t] = At("select2")]
               /\ UNCHANGED <<eng, ens_results, ens_i, ret>>
     ELSE Dispatch(t, eng[t])
  /\ UNCHANGED <<canInit, engines, initialized, call, objs>>

\* auto mode without the second choice
SelectAuto2NoTesseract(t) ==
  /\ opc[t] = At("select2")
  /\ eng' = eng
  /\ Leave(t, "error", "", "No OCR engine available")
  /\ UNCHANGED <<canInit, engines, initialized, call, objs>>

\* elif self.engines.get('tesseract'): engine = 'tesseract'
\* else: raise RuntimeError("No OCR engine available...")
SelectAuto2(t) ==
  /\ opc[t] = At("select2")
  /\ IF Available(engines, "tesseract")
     THEN Dispatch(t, "tesseract")
     ELSE /\ eng' = eng
          /\ Leave(t, "error", "", "No OCR engine available")
  /\ UNCHANGED <<canInit, engines, initialized, call, objs>>

\* the dict _extract_with_easyocr / _extract_with_tesseract returns
BackendResult(b, conf) ==
  [made |-> TRUE, text |-> b, confidence |-> conf, engine_used |-> b,
   all_engines |-> <<>>]

\* _extract_with_easyocr / _extract_with_tesseract
ExtractWith(t, b) ==
  /\ opc[t] = AtB("extract", b)
  /\ IF ~Available(engines, b)
     THEN /\ Leave(t, "error", "", "engine not available")
          /\ objs' = objs
     ELSE IF call[t].img[b].raises
     THEN /\ Leave(t, "error", "", "extraction failed")
          /\ objs' = objs
     ELSE /\ objs' = [objs EXCEPT ![t][b] = BackendResult(b, call[t].img[b].conf)]
          /\ Leave(t, "ok", b, "")
  /\ UNCHANGED <<canInit, engines, initialized, call, eng>>

(***************************************************************************)
(* PrescriptionOCR.extract_with_ensemble                                   *)
(***************************************************************************)
\* for engine_name in [...]: if self.engines.get(engine_name): extract_text(...)
EnsembleLoop(t) ==
  /\ opc[t] = At("ens_loop")
  /\ IF ens_i[t] > Len(EngineOrder)
     THEN /\ opc' = [opc EXCEPT ![t] = At("ens_pick")]
          /\ UNCHANGED <<eng, ens_i>>
     ELSE IF Available(engines, EngineOrder[ens_i[t]])
     THEN /\ eng' = [eng EXCEPT ![t] = EngineOrder[ens_i[t]]]
          /\ opc' = [opc EXCEPT ![t] = AtB("init_check", "easyocr")]
          /\ ens_i' = ens_i
     ELSE /\ ens_i' = [ens_i EXCEPT ![t] = @ + 1]
          /\ UNCHANGED <<eng, opc>>
  /\ UNCHANGED <<canInit, engines, initialized, call, ens_results,
                 objs, ret>>

\* the first result taken whatever its confidence
BestOfFirst(o, rs) == rs[1]

\* max(results, key=lambda x: x['confidence']): the first of the largest
BestOf(o, rs) ==
  rs[CHOOSE i \in 1..Len(rs) :
       /\ \A j \in 1..Len(rs) : o[rs[j]].confidence <= o[rs[i]].confidence
       /\ \A j \in 1..(i - 1) : o[rs[j]].confidence < o[rs[i]].confidence]

\* if not results: raise RuntimeError("All OCR engines failed")
\* best_result['all_engines'] = results; best_result['engine_used'] = 'ensemble'
EnsemblePick(t) ==
  /\ opc[t] = At("ens_pick")
  /\ IF ens_results[t] = <<>>
     THEN /\ ret' = [ret EXCEPT ![t] = [kind |-> "error", obj |-> "",
                                        error |-> "All OCR engines failed"]]
          /\ objs' = objs
     ELSE LET best == BestOf(objs[t], ens_results[t]) IN
          /\ objs' = [objs EXCEPT ![t][best] =
                        [@ EXCEPT !.all_engines = ens_results[t],
                                  !.engine_used = "ensemble"]]
          /\ ret' = [ret EXCEPT ![t] = [kind |-> "ok", obj |-> best, error |-> ""]]
  /\ opc' = [opc EXCEPT ![t] = At("returned")]
  /\ UNCHANGED <<canInit, engines, initialized, call, eng, ens_i,
                 ens_results>>

\* one step of invocation t inside PrescriptionOCR
OcrStep(t) ==
  \/ \E b \in Backends : InitCheck(t, b)
  \/ \E b \in Backends : InitAssign(t, b)
  \/ \E b \in Backends : InitFlag(t, b)
  \/ \E b \in Backends : InitExcept(t, b)
  \/ SelectAuto(t)
  \/ SelectAuto2(t)
  \/ \E b \in Backends : ExtractWith(t, b)
  \/ EnsembleLoop(t)
  \/ EnsemblePick(t)

(***************************************************************************)
(* PrescriptionOCRPipeline                                                 *)
(***************************************************************************)
StageNames == {"preprocessing", "ocr", "correction", "ner", "gemini"}

\* a record of results['stages']; status "absent" is a missing key
StageRecord(status) ==
  [status |-> status, confidence |-> NoRat, raw_text |-> "", engine_used |-> "",
   entity_count |-> 0, medicines_found |-> 0, reason |-> "",
   fallback_to_ner |-> FALSE, error |-> ""]

\* pipeline.py:55-60  results = {..., 'status': 'processing', 'stages': {}}
NewResults ==
  [status |-> "processing",
   stages |-> [n \in StageNames |-> StageRecord("absent")],
   has_items |-> FALSE, prescription_items |-> <<>>, item_count |-> 0,
   has_overall |-> FALSE, overall_confidence |-> NoRat,
   error |-> ""]

\* pipeline.py:198-205  except Exception as e: results.update(status='failed')
\* the error recorded, the status left as it was
FailedStatusKept(r, err) == [r EXCEPT !.error = err]
Failed(r, err) == [r EXCEPT !.status = "failed", !.error = err]

\* PrescriptionOCRPipeline.__init__
PipeInit ==
  /\ gemini_corrector \in {"None", "no_model", "model"}
  /\ drug_names \in {<<>>, Vocabulary}
  /\ ppc = "idle"
  /\ input = NoInput
  /\ results = NewResults
  /\ ocr_confidence = 0
  /\ correction_confidence = NoRat
  /\ entities = NoEntities
  /\ use_gemini = FALSE
  /\ gemini_result = NoGeminiResult
  /\ gemini_calls = 0

\* process_prescription is entered (pipeline.py:52-60)
Start ==
  /\ ppc = "idle"
  /\ \E i \in RunInputs : input' = i
  /\ results' = NewResults
  /\ ocr_confidence' = 0
  /\ correction_confidence' = NoRat
  /\ entities' = NoEntities
  /\ use_gemini' = FALSE
  /\ gemini_result' = NoGeminiResult
  /\ gemini_calls' = 0
  /\ ppc' = "preprocess"
  /\ UNCHANGED <<gemini_corrector, drug_names>>
  /\ UNCHANGED ocrVars
  /\ UNCHANGED fnVars

\* the image taken as decoded without the check of cv2.imread's result
PreprocessUnchecked ==
  /\ ppc = "preprocess"
  /\ results' = [results EXCEPT !.stages["preprocessing"] =
                                   StageRecord("completed")]
  /\ ppc' = "ocr"
  /\ UNCHANGED <<gemini_corrector, drug_names, input, ocr_confidence,
                 correction_confidence, entities, use_gemini, gemini_result,
                 gemini_calls>>
  /\ UNCHANGED ocrVars
  /\ UNCHANGED fnVars

\* Stage 1 (pipeline.py:63-66, preprocessing.py:30-51): cv2.imread returns
\* None for an image it cannot decode and preprocess raises ValueError
Preprocess ==
  /\ ppc = "preprocess"
  /\ IF input.decodable
     THEN /\ results' = [results EXCEPT !.stages["preprocessing"] =
                                          StageRecord("completed")]
          /\ ppc' = "ocr"
     ELSE /\ results' = Failed(results, "Could not read image")
          /\ ppc' = "done"
  /\ input' = IF input.decodable THEN input ELSE NoInput
  /\ UNCHANGED <<gemini_corrector, drug_names, ocr_confidence,
                 correction_confidence, entities, use_gemini, gemini_result,
                 gemini_calls>>
  /\ UNCHANGED ocrVars
  /\ UNCHANGED fnVars

\* Stage 2 (pipeline.py:70-73): the recognition call is made
OcrStage ==
  /\ ppc = "ocr"
  /\ \E img \in Images : OcrBegin(PipeThread, input.ocr_engine, img)
  /\ input' = NoInput
  /\ ppc' = "ocr_wait"
  /\ UNCHANGED <<gemini_corrector, drug_names, results, ocr_confidence,
                 correction_confidence, entities, use_gemini, gemini_result,
                 gemini_calls>>
  /\ UNCHANGED fnVars

\* Stage 2 (pipeline.py:75-85): the recognition call has returned or raised
OcrDone ==
  /\ ppc = "ocr_wait"
  /\ opc[PipeThread].at = "returned"
  /\ OcrEnd(PipeThread)
  /\ LET r == ret[PipeThread] IN
     IF r.kind = "ok"
     THEN LET o == objs[PipeThread][r.obj] IN
          /\ ocr_confidence' = o.confidence
          /\ results' = [results EXCEPT !.stages["ocr"] =
                           [StageRecord("completed") EXCEPT
                              !.raw_text = o.text,
                              !.confidence = RatInt(o.confidence),
                              !.engine_used = o.engine_used]]
          /\ ppc' = "correction"
     ELSE /\ results' = Failed(results, r.error)
          /\ ocr_confidence' = ocr_confidence
          /\ ppc' = "done"
  /\ UNCHANGED <<gemini_corrector, drug_names, input, correction_confidence,
                 entities, use_gemini, gemini_result, gemini_calls>>
  /\ UNCHANGED fnVars

\* Stage 3 (pipeline.py:89-95): corrector.correct_text(raw_text)
Correction ==
  /\ ppc = "correction"
  /\ \E cw \in CorrectionCounts :
       LET c == CorrectionConfidence(cw[1], cw[2]) IN
       /\ correction_confidence' = c
       /\ results' = [results EXCEPT !.stages["correction"] =
                        [StageRecord("completed") EXCEPT !.confidence = c]]
  /\ ppc' = "ner"
  /\ UNCHANGED <<gemini_corrector, drug_names, input, ocr_confidence, entities,
                 use_gemini, gemini_result, gemini_calls>>
  /\ UNCHANGED ocrVars
  /\ UNCHANGED fnVars

\* Stage 4 (pipeline.py:99-113): ner.extract_entities(corrected_text)
Ner ==
  /\ ppc = "ner"
  /\ \E e \in EntitySets :
       /\ entities' = e
       /\ results' = [results EXCEPT !.stages["ner"] =
                        [StageRecord("completed") EXCEPT
                           !.entity_count = EntityCount(e)]]
  /\ ppc' = "stage5"
  /\ UNCHANGED <<gemini_corrector, drug_names, input, ocr_confidence,
                 correction_confidence, use_gemini, gemini_result, gemini_calls>>
  /\ UNCHANGED ocrVars
  /\ UNCHANGED fnVars

\* a failed fallback leaving the run without items
AfterGeminiNoRevert(g, ents) ==
  IF g.status = "success" /\ g.medicines # <<>>
     /\ \A k \in 1..Len(g.medicines) : g.medicines[k].dict
  THEN [items |-> [k \in 1..Len(g.medicines) |->
                     DefaultConfidence(g.medicines[k].item)],
        stage |-> [StageRecord("used") EXCEPT
                     !.medicines_found = Len(g.medicines)]]
  ELSE [items |-> <<>>,
        stage |-> [StageRecord("failed") EXCEPT !.fallback_to_ner = TRUE]]

\* pipeline.py:127-144  what the run does with the fallback's answer g:
\* the prescription items and the record of the stage
AfterGemini(g, ents) ==
  IF g.status = "success" /\ g.medicines # <<>>
  THEN IF \A k \in 1..Len(g.medicines) : g.medicines[k].dict
       THEN [items |-> [k \in 1..Len(g.medicines) |->
                          DefaultConfidence(g.medicines[k].item)],
             stage |-> [StageRecord("used") EXCEPT
                          !.medicines_found = Len(g.medicines)]]
       ELSE [items |-> structure_prescription(ents),
             stage |-> [StageRecord("error") EXCEPT !.error = "TypeError"]]
  ELSE [items |-> structure_prescription(ents),
        stage |-> [StageRecord("failed") EXCEPT !.fallback_to_ner = TRUE]]

\* the deterministic items dropped
WithoutGeminiNoItems(ents) ==
  [items |-> <<>>,
   stage |-> [StageRecord("skipped") EXCEPT !.reason = "NER confidence good"]]

\* the stage record written without its reason
WithoutGeminiSilent(ents) ==
  [items |-> structure_prescription(ents), stage |-> StageRecord("skipped")]

\* pipeline.py:145-149  the fallback is not used
WithoutGemini(ents) ==
  [items |-> structure_prescription(ents),
   stage |-> [StageRecord("skipped") EXCEPT !.reason = "NER confidence good"]]

\* Stage 5 (pipeline.py:117-125, 145-152): the decision; either the fallback
\* extractor is called (a synchronous call, gemini_correction.py:71 passes
\* no timeout) or the deterministic items are taken
Stage5 ==
  /\ ppc = "stage5"
  /\ use_gemini' = UseGemini(ocr_confidence, Len(entities.drugs))
  /\ IF use_gemini' /\ gemini_corrector # "None"
     THEN /\ gemini_calls' = gemini_calls + 1
          /\ results' = results
          /\ ppc' = "gemini_wait"
     ELSE /\ gemini_calls' = gemini_calls
          /\ results' = [results EXCEPT
                           !.stages["gemini"] = WithoutGemini(entities).stage,
                           !.has_items = TRUE,
                           !.prescription_items = WithoutGemini(entities).items,
                           !.item_count = Len(WithoutGemini(entities).items)]
          /\ ppc' = "validate"
  /\ UNCHANGED <<gemini_corrector, drug_names, input, ocr_confidence,
                 correction_confidence, entities, gemini_result>>
  /\ UNCHANGED ocrVars
  /\ UNCHANGED fnVars

\* Stage 5 (pipeline.py:125-144, 151-152): correct_and_extract has returned
\* (at once when the extractor has no model, otherwise when the service has
\* answered or the client has raised) and its answer is taken or dropped
GeminiReturn ==
  /\ ppc = "gemini_wait"
  /\ \E g \in (IF gemini_corrector = "model" THEN GeminiResults
                ELSE {GeminiUnavailable}) :
       /\ gemini_result' = g
       /\ results' = [results EXCEPT
                        !.stages["gemini"] = AfterGemini(g, entities).stage,
                        !.has_items = TRUE,
                        !.prescription_items = AfterGemini(g, entities).items,
                        !.item_count = Len(AfterGemini(g, entities).items)]
  /\ ppc' = "validate"
  /\ UNCHANGED <<gemini_corrector, drug_names, input, ocr_confidence,
                 correction_confidence, entities, use_gemini, gemini_calls>>
  /\ UNCHANGED ocrVars
  /\ UNCHANGED fnVars

\* Stage 6 (pipeline.py:154-172): the items are validated in place
Validate ==
  /\ ppc = "validate"
  /\ \E v \in {ValidateAll(results.prescription_items, drug_names)} :
       /\ results' = IF v.raised
                     THEN Failed([results EXCEPT !.prescription_items = v.items],
                                 "TypeError")
                     ELSE [results EXCEPT !.prescription_items = v.items]
       /\ ppc' = IF v.raised THEN "done" ELSE "finalize"
  /\ UNCHANGED <<gemini_corrector, drug_names, input, ocr_confidence,
                 correction_confidence, entities, use_gemini, gemini_result,
                 gemini_calls>>
  /\ UNCHANGED ocrVars
  /\ UNCHANGED fnVars

\* pipeline.py:174-196  overall confidence, status 'completed', return
Finalize ==
  /\ ppc = "finalize"
  /\ IF ConfidenceRaises(results.prescription_items)
     THEN results' = Failed(results, "TypeError")
     ELSE results' = [results EXCEPT
                        !.status = "completed",
                        !.has_overall = TRUE,
                        !.overall_confidence =
                           OverallConfidence(ocr_confidence,
                                             correction_confidence,
                                             results.prescription_items)]
  /\ ppc' = "done"
  /\ UNCHANGED <<gemini_corrector, drug_names, input, ocr_confidence,
                 correction_confidence, entities, use_gemini, gemini_result,
                 gemini_calls>>
  /\ UNCHANGED ocrVars
  /\ UNCHANGED fnVars

\* return results (pipeline.py:196, 205): the run is over and its locals go
\* out of scope
Return ==
  /\ ppc = "done"
  /\ ppc' = "idle"
  /\ results' = NewResults
  /\ ocr_confidence' = 0
  /\ correction_confidence' = NoRat
  /\ entities' = NoEntities
  /\ use_gemini' = FALSE
  /\ gemini_result' = NoGeminiResult
  /\ gemini_calls' = 0
  /\ UNCHANGED <<gemini_corrector, drug_names, input>>
  /\ UNCHANGED ocrVars
  /\ UNCHANGED fnVars

\* the recognition call of the run advances
PipeOcrStep ==
  /\ ppc = "ocr_wait"
  /\ OcrStep(PipeThread)
  /\ UNCHANGED pipeVars
  /\ UNCHANGED fnVars

vars == <<ocrVars, pipeVars, fnVars>>

(***************************************************************************)
(* Spec: runs of process_prescription, one after the other, on one         *)
(* pipeline                                                                *)
(***************************************************************************)
Init ==
  /\ OcrInit
  /\ PipeInit
  /\ arg = NoArg
  /\ res = NoRes
  /\ canInit = [b \in Backends |-> "flaky"]
Next ==
  \/ Start
  \/ Preprocess
  \/ OcrStage
  \/ PipeOcrStep
  \/ OcrDone
  \/ Correction
  \/ Ner
  \/ Stage5
  \/ GeminiReturn
  \/ Validate
  \/ Finalize
  \/ Return
Spec == Init /\ [][Next]_vars

(***************************************************************************)
(* SpecLive: the runs of a pipeline that has a fallback extractor, with    *)
(* every step of the program fair.  The answer of the external service is  *)
(* the environment's step and is not: correct_and_extract returns by       *)
(* itself only when the extractor has no model.                            *)
(***************************************************************************)
InitLive ==
  /\ Init
  /\ gemini_corrector # "None"
  /\ drug_names = Vocabulary
\* the step of Validate and the step of Finalize, told by the pipeline's
\* position alone: Validate is the one action of Next that leaves "validate"
\* and Finalize the one that leaves "finalize", and each is enabled wherever
\* the pipeline is at its position, so weak fairness of these steps is weak
\* fairness of Validate and of Finalize
ValidateStep == ppc = "validate" /\ ppc' \in {"finalize", "done"}
FinalizeStep == ppc = "finalize" /\ ppc' = "done"
Fairness ==
  /\ WF_vars(Start)
  /\ WF_vars(Preprocess)
  /\ WF_vars(OcrStage)
  /\ WF_vars(PipeOcrStep)
  /\ WF_vars(OcrDone)
  /\ WF_vars(Correction)
  /\ WF_vars(Ner)
  /\ WF_vars(Stage5)
  /\ WF_vars(GeminiReturn /\ gemini_corrector # "model")
  /\ WF_ppc(ValidateStep)
  /\ WF_ppc(FinalizeStep)
  /\ WF_vars(Return)
SpecLive == InitLive /\ [][Next]_vars /\ Fairness

(***************************************************************************)
(* SpecOCR: several invocations call one PrescriptionOCR directly and      *)
(* concurrently                                                            *)
(***************************************************************************)
CallOCR(t) ==
  /\ \E mode \in OcrModes, img \in OcrImages : OcrBegin(t, mode, img)
  /\ UNCHANGED <<pipeVars, fnVars>>
ReturnOCR(t) == OcrEnd(t) /\ UNCHANGED <<pipeVars, fnVars>>
ThreadOcrStep(t) == OcrStep(t) /\ UNCHANGED <<pipeVars, fnVars>>

InitOCR ==
  /\ OcrInit
  /\ PipeInit
  /\ arg = NoArg
  /\ res = NoRes
  /\ gemini_corrector = "None"
  /\ drug_names = <<>>
NextOCR == \E t \in Threads : CallOCR(t) \/ ThreadOcrStep(t) \/ ReturnOCR(t)
SpecOCR == InitOCR /\ [][NextOCR]_vars

(***************************************************************************)
(* SpecSeq: one invocation calls one PrescriptionOCR, call after call,     *)
(* with every engine argument and every image                              *)
(***************************************************************************)
CallSeq(t) ==
  /\ \E mode \in Modes, img \in Images : OcrBegin(t, mode, img)
  /\ UNCHANGED <<pipeVars, fnVars>>
NextSeq == CallSeq(PipeThread) \/ ThreadOcrStep(PipeThread) \/ ReturnOCR(PipeThread)
SpecSeq == InitOCR /\ [][NextSeq]_vars

(***************************************************************************)
(* The functions of the Corrector, the Validator and the NER called on     *)
(* their own, once and then again on what they returned                    *)
(***************************************************************************)
\* the largest number of words of a text handed to correct_text
MaxTextWords == 2
TextWords ==
  { <<"1", "-", "0", "-", "1">>, <<"1", "-", "O", "-", "1">>,
    <<"l", "-", "0", "-", "l">>, <<"1", "ndash", "1", "O", "-", "1">>,
    <<"5", "O", "m", "g">>, <<"5", "O", "O", "m", "g">>, <<"5", "O", "5">>,
    <<"1", "2">>, <<"S">>, <<"d", "a", "y", "s">>, <<"t", "a", "b">>,
    Calpol, Calpal, Crocin \o <<"n">>, <<"O">>, <<"I">>, <<"5", "O">> }
\* the texts of at most n words of TextWords, a blank before every word but
\* the first
RECURSIVE TextsOf(_)
TextsOf(n) ==
  IF n = 0 THEN {<<>>}
  ELSE TextsOf(n - 1) \cup
       {(IF t = <<>> THEN t ELSE Append(t, " ")) \o w :
          t \in TextsOf(n - 1) \ {<<>>}, w \in TextWords} \cup TextWords
Texts == TextsOf(MaxTextWords) \cup {<<" ">>}

\* the longest dosage made of the characters of DosageChars
MaxDosageLen == 3
DosageChars == {"5", ".", " ", "g", "M"}
RECURSIVE StringsOf(_, _)
StringsOf(C, n) ==
  IF n = 0 THEN {<<>>}
  ELSE StringsOf(C, n - 1) \cup
       {Append(t, c) : t \in StringsOf(C, n - 1), c \in C}
\* the dosages handed to validate_dosage: every short string, and dosages
\* with the units of unit_mapping
Dosages ==
  StringsOf(DosageChars, MaxDosageLen) \cup
  { <<"5", "0", "0", " ", "M", "G">>, <<"2", "g", "m">>,
    <<"1", " ", "G", "r", "a", "m">>, <<"5", "M", "L">>,
    <<"5", "m", "i", "c", "r", "o", "g", "r", "a", "m">>,
    <<"1", "0", " ", "i", "u">>, <<"2", ".", "5", " ", " ", "m", "c", "g">>,
    <<"2", " ", "t", "a", "b", "s">>, <<"o", "n", "e">>,
    <<"x", " ", "5", " ", "5", "m", "g", " ", "b", "d">> }
\* the longest frequency made of the characters of FrequencyChars
MaxFrequencyLen == 3
FrequencyChars == {"O", "d", "B", " ", "-"}
\* the frequencies handed to validate_frequency: every short string, and
\* frequencies with the patterns of freq_patterns
Frequencies ==
  StringsOf(FrequencyChars, MaxFrequencyLen) \cup
  { <<"1", "-", "0", "-", "1">>,
    <<"1", "-", "1", "-", "1">>,
    <<"0", "-", "0", "-", "1">>,
    <<"x", "1", "-", "0", "-", "1">>,
    <<"1", "-", "0", "-", "1", " ", "a", "f", "t", "e", "r", " ", "f", "o", "o", "d">>,
    <<"O", "D">>,
    <<"b", "d">>,
    <<"T", "D", "S">>,
    <<"q", "i", "d">>,
    <<"O", "n", "c", "e", " ", "D", "a", "i", "l", "y">>,
    <<"B", "D", " ", "o", "r", " ", "T", "D", "S">>,
    <<"S", "O", "S">> }
\* an item whose dosage is the string d
ItemWithDosage(d) ==
  NewItem(Str(Calpol), Str(d), None, None, None, None, <<>>, ConfNum(90))

\* the largest number of lines of a text handed to the section isolation
MaxLines == 3
\* a header line, a marker line, a line with a medicine prefix, a marker line
\* with one, a line with neither, an empty and a blank line, a header line
\* with a medicine prefix
Lines ==
  { <<"D", "r", ".", " ", "X">>, <<"R", "x">>,
    <<"T", "a", "b", " ", "C", "a", "l", "p", "o", "l">>,
    <<"R", "x", " ", "T", "a", "b", " ", "C", "r", "o", "c", "i", "n">>,
    <<"C", "a", "l", "p", "o", "l">>, <<>>, <<" ">>,
    <<"A", "g", "e", ":", " ", "5", " ", "m", "g">> }
RECURSIVE LineTexts(_)
LineTexts(n) ==
  IF n = 1 THEN Lines
  ELSE LineTexts(n - 1) \cup
       {t \o <<"\n">> \o l : t \in LineTexts(n - 1), l \in Lines}

InitFn ==
  /\ OcrInit
  /\ canInit = [b \in Backends |-> "ok"]
  /\ PipeInit
  /\ gemini_corrector = "None"
  /\ arg \in [fn : {"correct_text", "_correct_drug_names",
                    "_correct_dosage_format"}, x : Texts]
            \cup [fn : {"validate_dosage"}, x : Dosages]
            \cup [fn : {"validate_frequency"}, x : Frequencies]
            \cup [fn : {"_extract_medication_section"}, x : LineTexts(MaxLines)]
  /\ res = <<>>
\* corrector.correct_text(text), then again on the text it returned
CallCorrectText ==
  /\ arg.fn = "correct_text"
  /\ Len(res) < 2
  /\ res' = Append(res, correct_text(IF res = <<>> THEN arg.x ELSE res[1].text,
                                     drug_names))
  /\ UNCHANGED <<ocrVars, pipeVars, arg>>
\* corrector._correct_drug_names(text)
CallCorrectDrugNames ==
  /\ arg.fn = "_correct_drug_names"
  /\ res = <<>>
  /\ res' = <<CorrectDrugNames(arg.x, drug_names)>>
  /\ UNCHANGED <<ocrVars, pipeVars, arg>>
\* corrector._correct_dosage_format(text)
CallCorrectDosageFormat ==
  /\ arg.fn = "_correct_dosage_format"
  /\ res = <<>>
  /\ res' = <<CorrectDosageFormat(arg.x)>>
  /\ UNCHANGED <<ocrVars, pipeVars, arg>>
\* pipeline.py:157-160 for one item, then again for the item it left
CallValidateDosage ==
  /\ arg.fn = "validate_dosage"
  /\ Len(res) < 2
  /\ res' = Append(res, ValidateDosage(IF res = <<>> THEN ItemWithDosage(arg.x)
                                       ELSE res[1]))
  /\ UNCHANGED <<ocrVars, pipeVars, arg>>
\* pipeline.py:162-165 for one item, then again for the item it left
CallValidateFrequency ==
  /\ arg.fn = "validate_frequency"
  /\ Len(res) < 2
  /\ res' = Append(res, ValidateFrequency(
                IF res = <<>>
                THEN NewItem(Str(Calpol), None, Str(arg.x), None, None, None,
                             <<>>, ConfNum(90))
                ELSE res[1]))
  /\ UNCHANGED <<ocrVars, pipeVars, arg>>
\* ner._extract_medication_section(text)
CallExtractSection ==
  /\ arg.fn = "_extract_medication_section"
  /\ res = <<>>
  /\ res' = <<extract_medication_section(arg.x)>>
  /\ UNCHANGED <<ocrVars, pipeVars, arg>>
NextFn ==
  \/ CallCorrectText
  \/ CallCorrectDrugNames
  \/ CallCorrectDosageFormat
  \/ CallValidateDosage
  \/ CallValidateFrequency
  \/ CallExtractSection
SpecFn == InitFn /\ [][NextFn]_vars

(***************************************************************************)
(* Properties                                                              *)
(***************************************************************************)
\* C1: once stage 5 has decided, use_gemini holds exactly when the
\* recognition confidence is strictly below 0.6, or the number of drug
\* entities is 0, or it is strictly above 10
C1_EscalationRule ==
  results.has_items =>
    (use_gemini <=> \/ ocr_confidence < 60
                    \/ Len(entities.drugs) = 0
                    \/ Len(entities.drugs) > 10)
\* confidence exactly 0.6 with exactly 10 drug entities: no escalation
C1_Witness ==
  /\ results.has_items
  /\ ocr_confidence = 60
  /\ Len(entities.drugs) = 10
  /\ ~use_gemini

\* C2: a run whose image cannot be decoded ends at the Normalizer with
\* status failed, the decode error and no prescription items; no later stage
\* is recorded, no recognition or fallback call is made, and nothing follows
\* but the return
C2_UndecodableFails ==
  [][/\ (ppc = "preprocess" /\ ~input.decodable) =>
          /\ ppc' = "done"
          /\ results'.status = "failed"
          /\ results'.error = "Could not read image"
          /\ ~results'.has_items
          /\ results'.prescription_items = <<>>
          /\ \A n \in StageNames \ {"preprocessing"} :
                results'.stages[n].status = "absent"
          /\ opc' = opc
          /\ gemini_calls' = 0
     /\ (results.error = "Could not read image") => ppc' = "idle"]_vars
C2_Witness ==
  /\ ppc = "done"
  /\ results.status = "failed"
  /\ results.error = "Could not read image"

\* C3: when the run escalates and the fallback extractor is absent or its
\* answer is no success with a non-empty medicine list (an exception inside
\* the extractor comes back as status error), stage 5 selects exactly
\* structure_prescription's items, the envelope holds them as the Validator
\* leaves them, and the run ends completed
C3_FallbackFailsToNer ==
  (/\ results.has_items
   /\ use_gemini
   /\ \/ gemini_corrector = "None"
      \/ gemini_result.status # "success"
      \/ gemini_result.medicines = <<>>)
  => /\ ppc = "validate" =>
          results.prescription_items = structure_prescription(entities)
     /\ ppc \in {"finalize", "done"} =>
          results.prescription_items =
            ValidateAll(structure_prescription(entities), drug_names).items
     /\ results.status # "failed"
     /\ ppc = "done" => results.status = "completed"
C3_Witness ==
  /\ ppc = "done"
  /\ use_gemini
  /\ gemini_result.status = "error"
  /\ results.item_count = 2
  /\ results.status = "completed"

\* C4: a run whose preprocessing and recognition succeeded ends completed
C4_AlwaysCompleted ==
  (ppc = "done" /\ results.stages["ocr"].status = "completed")
  => results.status = "completed"

C6_FallbackStageRecorded ==
  /\ results.status = "completed" =>
       \A n \in StageNames : results.stages[n].status # "absent"
  /\ (results.has_items /\ gemini_calls = 0) =>
       /\ results.stages["gemini"].status = "skipped"
       /\ results.stages["gemini"].reason # ""
\* a completed run that escalated without a fallback extractor to invoke
C6_Witness ==
  /\ results.status = "completed"
  /\ use_gemini
  /\ gemini_calls = 0
  /\ results.stages["gemini"].status = "skipped"

\* C7 as claimed: the overall confidence of a completed run is the mean of
\* recognition confidence, correction confidence and the mean item
\* confidence, the third being 0.5 when there are no items
C7_OverallConfidenceHalf ==
  results.status = "completed" =>
    /\ results.has_overall
    /\ RatEq(results.overall_confidence,
             RatDivInt(RatAdd(RatAdd(RatInt(ocr_confidence), correction_confidence),
                              IF Len(results.prescription_items) = 0
                              THEN RatInt(50)
                              ELSE Rat(SumConfidence(results.prescription_items, 1),
                                       Len(results.prescription_items))), 3))

\* C7 amended: the same mean, the third value being 0 when there are no items
C7_OverallConfidenceZero ==
  results.status = "completed" =>
    /\ results.has_overall
    /\ RatEq(results.overall_confidence,
             RatDivInt(RatAdd(RatAdd(RatInt(ocr_confidence), correction_confidence),
                              IF Len(results.prescription_items) = 0
                              THEN RatInt(0)
                              ELSE Rat(SumConfidence(results.prescription_items, 1),
                                       Len(results.prescription_items))), 3))
\* a completed run without items
C7_Witness ==
  /\ results.status = "completed"
  /\ results.has_overall
  /\ Len(results.prescription_items) = 0

\* C8: an ensemble call fails, with "All OCR engines failed", exactly when
\* no backend returned a result; otherwise it returns a result of a backend
\* that returned, of the highest confidence among them; and the second
\* backend, when available, is invoked whatever the first one did
C8_EnsembleBest ==
  \A t \in Threads :
    (opc[t].at = "returned" /\ call[t].mode = "ensemble") =>
      /\ ret[t].kind = "error" <=> \A b \in Backends : ~objs[t][b].made
      /\ ret[t].kind = "error" => ret[t].error = "All OCR engines failed"
      /\ ret[t].kind = "ok" =>
           /\ objs[t][ret[t].obj].made
           /\ \A b \in Backends :
                objs[t][b].made =>
                  objs[t][b].confidence <= objs[t][ret[t].obj].confidence
      /\ (Available(engines, "tesseract") /\ ~call[t].img.tesseract.raises) =>
           objs[t].tesseract.made
\* both backends returned and the second one's result is the better one
C8_Witness ==
  \E t \in Threads :
    /\ opc[t].at = "returned"
    /\ call[t].mode = "ensemble"
    /\ objs[t].easyocr.made
    /\ objs[t].tesseract.made
    /\ objs[t].easyocr.confidence < objs[t].tesseract.confidence
    /\ ret[t].obj = "tesseract"

\* C9: the first recognition call on a newly constructed PrescriptionOCR, in
\* ensemble mode, with a backend that can be initialised and recognises the
\* image, returns a result
C9_FirstEnsembleCallWorks ==
  \A t \in Threads :
    (/\ opc[t].at = "returned"
     /\ call[t].mode = "ensemble"
     /\ call[t].fresh
     /\ \E b \in Backends : canInit[b] = "ok" /\ ~call[t].img[b].raises)
    => ret[t].kind = "ok"

\* C10: no two invocations are inside the initialisation body of the same
\* backend at the same time
C10_InitMutex ==
  \A b \in Backends : \A t1, t2 \in Threads :
    t1 # t2 =>
      ~(/\ opc[t1].b = b
        /\ opc[t1].at \in {"init_assign", "init_flag", "init_except"}
        /\ opc[t2].b = b
        /\ opc[t2].at \in {"init_assign", "init_flag", "init_except"})

\* C11: a recognition call of a run in auto mode has used EasyOCR whenever
\* EasyOCR is available, Tesseract exactly when EasyOCR is not available and
\* Tesseract is, and has raised the no-engine error exactly when neither is;
\* the error ends the run with status failed
C11_AutoMode ==
  [][(opc[PipeThread].at = "returned" /\ call[PipeThread].mode = "auto") =>
       /\ Available(engines, "easyocr") => eng[PipeThread] = "easyocr"
       /\ eng[PipeThread] = "tesseract" <=>
            (~Available(engines, "easyocr") /\ Available(engines, "tesseract"))
       /\ (/\ ret[PipeThread].kind = "error"
           /\ ret[PipeThread].error = "No OCR engine available") <=>
            (~Available(engines, "easyocr") /\ ~Available(engines, "tesseract"))
       /\ ret[PipeThread].kind = "error" =>
            /\ ppc' = "done"
            /\ results'.status = "failed"
            /\ results'.error = ret[PipeThread].error]_vars
\* a run that failed for want of an engine
C11_Witness ==
  /\ ppc = "done"
  /\ results.status = "failed"
  /\ results.error = "No OCR engine available"

\* C12: a run that has called the fallback extractor leaves the fallback
\* stage and ends
C12_FallbackCallEnds == (ppc = "gemini_wait") ~> (ppc = "done")

\* C13: the Corrector is idempotent: applied again to the text it returned,
\* correct_text returns the same text, makes zero corrections, and gives
\* confidence 1.0 when that text has a word
C13_CorrectorIdempotent ==
  (Len(res) = 2 /\ arg.fn = "correct_text") =>
    /\ res[2].text = res[1].text
    /\ res[2].corrections = 0
    /\ Split(res[1].text, 1, <<>>) # <<>> => RatEq(res[2].confidence, RatInt(100))
\* the second application returns the same text
C13_SameTextAgain ==
  (Len(res) = 2 /\ arg.fn = "correct_text") => res[2].text = res[1].text

C15_ConfidenceFormula ==
  (Len(res) >= 1 /\ arg.fn = "correct_text") =>
    LET n == Len(Split(arg.x, 1, <<>>))
        p1 == CorrectOcrPatterns(arg.x)
        p2 == CorrectDosageFormat(p1.text)
        c == p1.corrections + p2.corrections
               + CorrectDrugNames(p2.text, drug_names).corrections
        conf == res[1].confidence
    IN /\ n > 0 => conf.num * n =
                     conf.den * (IF 100 * (n - c) > 50 * n
                                 THEN 100 * (n - c) ELSE 50 * n)
       /\ ~RatLess(conf, RatInt(50)) /\ ~RatLess(RatInt(100), conf)
       /\ c = 0 => RatEq(conf, RatInt(100))
\* C15 as amended: the formula holds for every input with at least one
\* word; for a text of zero words no correction is made and the confidence
\* is 0.8; in both cases the confidence lies in [0.5, 1.0]
C15_ConfidenceAmended ==
  (Len(res) >= 1 /\ arg.fn = "correct_text") =>
    LET n == Len(Split(arg.x, 1, <<>>))
        p1 == CorrectOcrPatterns(arg.x)
        p2 == CorrectDosageFormat(p1.text)
        c == p1.corrections + p2.corrections
               + CorrectDrugNames(p2.text, drug_names).corrections
        conf == res[1].confidence
    IN /\ n > 0 => conf.num * n =
                     conf.den * (IF 100 * (n - c) > 50 * n
                                 THEN 100 * (n - c) ELSE 50 * n)
       /\ ~RatLess(conf, RatInt(50)) /\ ~RatLess(RatInt(100), conf)
       /\ (n > 0 /\ c = 0) => RatEq(conf, RatInt(100))
       /\ n = 0 => c = 0 /\ RatEq(conf, RatInt(80))
\* correct_text has answered for a text that is one blank
C15_Witness ==
  /\ Len(res) >= 1
  /\ arg.fn = "correct_text"
  /\ arg.x = <<" ">>
  /\ RatEq(res[1].confidence, RatInt(80))

\* C16: without a vocabulary, a run whose preprocessing and recognition
\* succeeded still ends completed, and every list of suggestions it
\* attached is empty
C16_RunWithoutVocabulary ==
  (drug_names = <<>> /\ ppc = "done" /\ results.stages["ocr"].status = "completed")
  => /\ results.status = "completed"
     /\ \A k \in 1..Len(results.prescription_items) :
          results.prescription_items[k].drug_suggestions.list = <<>>
\* C16, the functions on their own: without a vocabulary the drug-name
\* repair pass returns its input unchanged with zero corrections
C16_PassIsNoOp ==
  (Len(res) = 1 /\ arg.fn = "_correct_drug_names" /\ drug_names = <<>>)
  => res[1] = [text |-> arg.x, corrections |-> 0]

\* C17: for an item whose dosage is a string, the Validator sets
\* dosage_valid to true exactly when the dosage contains a number followed,
\* optionally after spaces, by a unit, and then replaces the dosage by that
\* number immediately followed by the unit, its spelling normalised whatever
\* its case (mg, gm and gram to g, microgram to mcg, iu to IU; any other
\* unit changes at most its case); otherwise it sets dosage_valid to false
\* and leaves the dosage as it was
C17_DosageValidation ==
  (Len(res) >= 1 /\ arg.fn = "validate_dosage" /\ arg.x # <<>>) =>
    LET d == arg.x
        out == res[1].dosage.v
        N == 1..Len(d)
        AllIn(i, j, C) == \A k \in i..j : d[k] \in C
        Number(i, a) ==
          \/ AllIn(i, a, Digits)
          \/ \E p \in (i + 1)..(a - 1) :
               AllIn(i, p - 1, Digits) /\ d[p] = "." /\ AllIn(p + 1, a, Digits)
        Norm(u) ==
          LET l == LowerStr(u) IN
          IF l = <<"m", "g">> THEN {l}
          ELSE IF l \in {<<"g", "m">>, <<"g", "r", "a", "m">>} THEN {<<"g">>}
          ELSE IF l = <<"m", "i", "c", "r", "o", "g", "r", "a", "m">>
               THEN {<<"m", "c", "g">>}
          ELSE IF l = <<"i", "u">> THEN {<<"I", "U">>}
          ELSE {v \in {u, l} : TRUE}
        Found == \E i \in N, k \in N :
                   i < k /\ d[i] \in Digits /\ d[k] \in Letters
                   /\ AllIn(i + 1, k - 1, Spaces)
    IN /\ res[1].dosage_valid = IF Found THEN "true" ELSE "false"
       /\ ~Found => out = d
       /\ Found =>
            \E i \in N, a \in N, k \in N, u \in N :
              /\ i <= a /\ a < k /\ k <= u
              /\ Number(i, a)
              /\ AllIn(a + 1, k - 1, Spaces)
              /\ AllIn(k, u, Letters)
              /\ u = Len(d) \/ d[u + 1] \notin Letters
              /\ \E v \in Norm(SubSeq(d, k, u)) : out = SubSeq(d, i, a) \o v
\* "500 MG" has become "500mg" and is valid
C17_Witness ==
  /\ Len(res) >= 1
  /\ arg.fn = "validate_dosage"
  /\ arg.x = <<"5", "0", "0", " ", "M", "G">>
  /\ res[1].dosage = Str(<<"5", "0", "0", "m", "g">>)
  /\ res[1].dosage_valid = "true"

C19_FallbackOnlyOnEscalation ==
  /\ gemini_calls <= 1
  /\ gemini_calls = 1 => use_gemini /\ gemini_corrector # "None"
  /\ (ppc = "validate" /\ ~use_gemini) =>
       /\ gemini_calls = 0
       /\ results.prescription_items = structure_prescription(entities)
\* a run with a fallback extractor at hand that did not escalate and has its
\* deterministic items
C19_Witness ==
  /\ ppc = "validate"
  /\ ~use_gemini
  /\ gemini_corrector = "model"
  /\ gemini_calls = 0
  /\ Len(results.prescription_items) >= 1
  /\ results.prescription_items = structure_prescription(entities)

\* C20: when some line contains a section-start keyword, the section holds
\* no section-start line and no line other than those after the first
\* section-start line: the medicine-prefix heuristic is not used
C20_NoHeuristicWithKeyword ==
  (Len(res) = 1 /\ arg.fn = "_extract_medication_section") =>
    LET lines == SplitLines(arg.x, 1, <<>>, <<>>)
        Starts == {k \in 1..Len(lines) : HasAny(MedicationMarkers, lines[k])}
        first == CHOOSE k \in Starts : \A j \in Starts : k <= j
        section == SplitLines(res[1], 1, <<>>, <<>>)
    IN (Starts # {} /\ res[1] # <<>>) =>
         \A n \in 1..Len(section) :
           /\ ~HasAny(MedicationMarkers, section[n])
           /\ \E k \in (first + 1)..Len(lines) : lines[k] = section[n]

\* C21: in the output of correct_text every word of the input that is the
\* letter O alone has become 0, every word that is l or I alone has become
\* 1, every S right before a digit has become 5 and every O right after a
\* digit has become 0, each of them counted as a correction
C21_IsolatedLetters ==
  (Len(res) >= 1 /\ arg.fn = "correct_text") =>
    LET in == Split(arg.x, 1, <<>>)
        out == Split(res[1].text, 1, <<>>)
        Repaired(w) ==
          IF w = <<"O">> THEN <<"0">>
          ELSE IF w \in {<<"l">>, <<"I">>} THEN <<"1">>
          ELSE [i \in 1..Len(w) |->
                  IF w[i] = "S" /\ i < Len(w) /\ w[i + 1] \in Digits THEN "5"
                  ELSE IF w[i] = "O" /\ i > 1 /\ w[i - 1] \in Digits THEN "0"
                  ELSE w[i]]
        Confused == {k \in 1..Len(in) :
                       in[k] \in {<<"O">>, <<"l">>, <<"I">>, <<"5", "O">>}}
    IN Confused # {} =>
         /\ Len(out) = Len(in)
         /\ \A k \in Confused : out[k] = Repaired(in[k])
         /\ res[1].corrections >= Cardinality(Confused)

\* C22: a word made of digits, then k >= 1 letters O, then mg comes out of
\* correct_text as the same digits, then exactly k zeros, then mg
C22_OneZeroPerO ==
  (Len(res) >= 1 /\ arg.fn = "correct_text") =>
    LET in == Split(arg.x, 1, <<>>)
        out == Split(res[1].text, 1, <<>>)
        DigitsEnd(w) == RunEnd(w, 1, Digits)
        OsEnd(w) == RunEnd(w, DigitsEnd(w) + 1, {"O"})
        Broken(w) == /\ DigitsEnd(w) >= 1
                     /\ OsEnd(w) > DigitsEnd(w)
                     /\ SubSeq(w, OsEnd(w) + 1, Len(w)) = <<"m", "g">>
    IN \A k \in 1..Len(in) :
         Broken(in[k]) =>
           /\ Len(out) = Len(in)
           /\ out[k] = [i \in 1..Len(in[k]) |->
                          IF in[k][i] = "O" THEN "0" ELSE in[k][i]]

\* C23: the dosage-format pass keeps the triad: a word of three tokens of
\* digits and letters O or o, separated by hyphens or en dashes, comes out
\* as the three tokens, every O and o turned to 0, separated by hyphens; no
\* token is dropped
C23_TriadKept ==
  (Len(res) = 1 /\ arg.fn = "_correct_dosage_format") =>
    LET in == Split(arg.x, 1, <<>>)
        out == Split(res[1].text, 1, <<>>)
        Triad(w) ==
          \E p \in 2..(Len(w) - 3) : \E q \in (p + 2)..(Len(w) - 1) :
            \A i \in 1..Len(w) :
              IF i \in {p, q} THEN w[i] \in Dashes
              ELSE w[i] \in Digits \cup {"O", "o"}
        Clean(w) == [i \in 1..Len(w) |->
                       IF w[i] \in Dashes THEN "-"
                       ELSE IF w[i] \in {"O", "o"} THEN "0" ELSE w[i]]
    IN \A k \in 1..Len(in) :
         Triad(in[k]) => Len(out) = Len(in) /\ out[k] = Clean(in[k])

\* C24: the deterministic items of stage 5 are one per drug entity, in
\* entity order, each with the name and the confidence of its drug entity;
\* dosage, frequency, duration, route and quantity are the value of the
\* first entity of the kind, or null when there is none, and instructions
\* are the values of all the instruction entities
C24_OneItemPerDrug ==
  (ppc = "validate" /\ results.stages["gemini"].status # "used") =>
    LET items == results.prescription_items
        First(kind) == IF Len(entities[kind]) = 0 THEN None
                       ELSE Str(entities[kind][1].value)
    IN /\ Len(items) = Len(entities.drugs)
       /\ \A i \in 1..Len(items) :
            /\ items[i].drug_name = Str(entities.drugs[i].value)
            /\ items[i].confidence = ConfNum(entities.drugs[i].confidence)
            /\ items[i].dosage = First("dosages")
            /\ items[i].frequency = First("frequencies")
            /\ items[i].duration = First("durations")
            /\ items[i].route = First("routes")
            /\ items[i].quantity = First("quantities")
            /\ Len(items[i].instructions) = Len(entities.instructions)
            /\ \A k \in 1..Len(entities.instructions) :
                 items[i].instructions[k] = entities.instructions[k].value
\* two items for Calpol and Crocin, both with the first of two dosages and
\* with both instructions
C24_Witness ==
  /\ ppc = "validate"
  /\ results.stages["gemini"].status # "used"
  /\ Len(results.prescription_items) = 2
  /\ Len(entities.dosages) = 2
  /\ results.prescription_items[2].drug_name = Str(Crocin)
  /\ results.prescription_items[2].dosage = Str(<<"5", "m", "l">>)
  /\ Len(results.prescription_items[2].instructions) = 2

C27_SkippedOnlyWithoutEscalation ==
  (/\ results.stages["gemini"].status = "skipped"
   /\ results.stages["gemini"].reason = "NER confidence good")
  => ~use_gemini

\* C28: when extract_with_ensemble has returned a result, every entry of
\* its all_engines still has the engine_used of the backend that produced
\* it and an all_engines of its own that is empty, and the result is not
\* one of its own entries
C28_EntriesUntouched ==
  \A t \in Threads :
    (/\ opc[t].at = "returned"
     /\ call[t].mode = "ensemble"
     /\ ret[t].kind = "ok") =>
      LET all == objs[t][ret[t].obj].all_engines IN
      /\ \A k \in 1..Len(all) :
           /\ objs[t][all[k]].engine_used = all[k]
           /\ objs[t][all[k]].all_engines = <<>>
      /\ \A k \in 1..Len(all) : all[k] # ret[t].obj

\* C29: a backend whose initialised flag is true has its engine handle, in
\* every state any interleaving of concurrent calls can reach
C29_FlagImpliesHandle ==
  \A b \in Backends : initialized[b] => engines[b] = "handle"

\* C30: the Validator is idempotent: validating the dosage of an item that
\* was validated yields the same validity flag and the same dosage, and
\* validating its frequency again yields the same frequency; the item does
\* not change
C30_ValidatorIdempotent ==
  (Len(res) = 2 /\ arg.fn \in {"validate_dosage", "validate_frequency"}) =>
    /\ res[2].dosage = res[1].dosage
    /\ res[2].dosage_valid = res[1].dosage_valid
    /\ res[2].frequency = res[1].frequency
    /\ res[2].frequency_valid = res[1].frequency_valid
    /\ res[2] = res[1]
\* "1-0-1" was normalised to "1-0-1 (twice daily)" and validated again
C30_Witness ==
  /\ Len(res) = 2
  /\ arg.fn = "validate_frequency"
  /\ arg.x = <<"1", "-", "0", "-", "1">>
  /\ res[1].frequency # Str(arg.x)
  /\ res[1].frequency_valid = "true"
  /\ res[2].frequency = res[1].frequency

====
